---------------------------- MODULE Spec2Model ----------------------------
(***************************************************************************)
(* A model of smart-search-mcp: the .ajson record parser and loader        *)
(* (src/ajson-parser.js), the cosine similarity primitive                  *)
(* (src/similarity.js), the search orchestrator (src/search.js) and the    *)
(* tool handlers of the server (src/server.js).                            *)
(*                                                                         *)
(* Conventions of the model                                                *)
(*   - A JavaScript string is a sequence of one-character strings, so that *)
(*     startsWith, slice and toLowerCase are computed, not assumed.        *)
(*   - A vector is a sequence of integers.  Its components are             *)
(*     integer-valued doubles small enough for every sum and product of    *)
(*     cosineSimilarity to be exact.                                       *)
(*   - A score is held in thousandths: the integer k stands for the        *)
(*     double k / 1000 that Math.round(x * 1000) / 1000 returns.  A        *)
(*     threshold is held in thousandths too.                               *)
(*   - An optional value (undefined / null in the code) is <<>> when       *)
(*     absent and <<v>> when present.                                      *)
(*   - A Map is the sequence of its entries in insertion order.            *)
(***************************************************************************)
EXTENDS Integers, Sequences, FiniteSets, TLC

VARIABLES
    embeddings,   \* the Map path -> {vec, type}, as its entries in insertion order
    loadPc,       \* position of loadEmbeddings: "readdir", "files", "ready"
    filesLeft,    \* number of directory entries loadEmbeddings has still to visit
    call,         \* the operation of the search orchestrator in progress or last completed
    simA,         \* first argument of the last cosineSimilarity call
    simB,         \* second argument of the last cosineSimilarity call
    simOut,       \* what that call returned (status and value)
    files,        \* loadEmbeddings: how fs.readdir settled and, while the loop runs, the listing
    response,     \* what the last tool handler of the server gave its client
    parseIn,      \* argument of the last parseAjsonContent call
    parseOut,     \* what that call returned (status and entries)
    mainPc,       \* main: its position and whether it wrote the warning
    inflight,     \* the semanticSearch and findRelated calls of concurrent callers
    pipe,         \* createEmbedder: the cached pipeline, Null until one is assigned
    pipelineCalls,\* the pipeline(...) calls of the embedder, each with its outcome
    encoders,     \* the encode calls of one embedder, each with its position
    noteIn,       \* arguments of the last readNote call
    noteOut       \* how that call settled and which file it read

embedderVars == <<pipe, pipelineCalls, encoders>>

readerVars == <<noteIn, noteOut>>

vars == <<embeddings, loadPc, filesLeft, call, simA, simB, simOut,
          files, response, parseIn, parseOut, mainPc, inflight,
          embedderVars, readerVars>>

---------------------------------------------------------------------------
(* Bounds of the model *)

\* longest vector of the component-wise vocabulary of the similarity specification
MaxDim == 3

\* directory entries one load visits
MaxFiles == 2

\* lines of one record file
MaxLines == 2

\* largest explicit limit option
MaxLimit == 2

\* lines of one content of the parser specification
MaxParseLines == 3

\* directory entries of one listing of the loader specification
MaxListed == 3

---------------------------------------------------------------------------
(* Generic helpers *)

Null == <<>>

Some(v) == <<v>>

Abs(n) == IF n < 0 THEN -n ELSE n

Min(a, b) == IF a <= b THEN a ELSE b

Max(a, b) == IF a >= b THEN a ELSE b

Range(s) == {s[i] : i \in 1..Len(s)}

\* all sequences over S of length 0..n
RECURSIVE SeqsUpTo(_, _)
SeqsUpTo(S, n) ==
    IF n = 0 THEN {<<>>}
    ELSE LET shorter == SeqsUpTo(S, n - 1)
         IN  shorter \cup {Append(s, x) : s \in {t \in shorter : Len(t) = n - 1}, x \in S}

\* floor of the square root of n >= 0, by bisection on lo..hi (lo*lo <= n < (hi+1)*(hi+1))
RECURSIVE ISqrtIn(_, _, _)
ISqrtIn(n, lo, hi) ==
    IF lo >= hi THEN lo
    ELSE LET mid == (lo + hi + 1) \div 2
         IN  IF mid * mid <= n THEN ISqrtIn(n, mid, hi) ELSE ISqrtIn(n, lo, mid - 1)

ISqrt(n) == ISqrtIn(n, 0, Min(n, 46340))

---------------------------------------------------------------------------
(* src/similarity.js *)

\* the factor of Math.round(x * 1000) / 1000
Scale == 1000

\* the accumulator [dot, sumA, sumB] of the reduce over vecA, after its first n elements
RECURSIVE DotMag(_, _, _)
DotMag(a, b, n) ==
    IF n = 0 THEN <<0, 0, 0>>
    ELSE LET acc == DotMag(a, b, n - 1)
         IN  <<acc[1] + a[n] * b[n], acc[2] + a[n] * a[n], acc[3] + b[n] * b[n]>>

\* Math.round(n / sqrt(m)) for integers n and m > 0: floor(n / sqrt(m) + 1/2), so a
\* tie k + 1/2 goes to k + 1 and a tie -(k + 1/2) goes to -k
MathRound(n, m) ==
    LET a        == Abs(n)
        k        == ISqrt((a * a) \div m)
        \* the fraction of a / sqrt(m) is >= 1/2, respectively > 1/2
        half     == (2 * k + 1) * (2 * k + 1) * m <= 4 * a * a
        overHalf == (2 * k + 1) * (2 * k + 1) * m < 4 * a * a
    IN  IF n >= 0 THEN k + (IF half THEN 1 ELSE 0)
        ELSE -(k + (IF overHalf THEN 1 ELSE 0))

\* cosineSimilarity without its length guard
cosineSimilarityNoLengthGuard(vecA, vecB) ==
    IF vecA = Null \/ vecB = Null THEN 0
    ELSE LET a   == vecA[1]
             b   == vecB[1]
             acc == DotMag(a, b, Min(Len(a), Len(b)))
         IN  IF acc[2] * acc[3] = 0 THEN 0
             ELSE MathRound(Scale * acc[1], acc[2] * acc[3])

\* cosineSimilarity that divides by |a|^2 instead of |a||b|
cosineSimilarityOneMagnitude(vecA, vecB) ==
    IF vecA = Null \/ vecB = Null THEN 0
    ELSE LET a   == vecA[1]
             b   == vecB[1]
         IN  IF Len(a) # Len(b) THEN 0
             ELSE LET acc == DotMag(a, b, Len(a))
                  IN  IF acc[2] * acc[3] = 0 THEN 0
                      ELSE MathRound(Scale * acc[1], acc[2] * acc[2])

\* cosineSimilarity whose magnitude is sqrt(magA) * magB
cosineSimilaritySqrtOnce(vecA, vecB) ==
    IF vecA = Null \/ vecB = Null THEN 0
    ELSE LET a   == vecA[1]
             b   == vecB[1]
         IN  IF Len(a) # Len(b) THEN 0
             ELSE LET acc == DotMag(a, b, Len(a))
                  IN  IF acc[2] * acc[3] = 0 THEN 0
                      ELSE MathRound(Scale * acc[1], acc[2] * acc[3] * acc[3])

\* cosineSimilarity that divides by |b|^2 instead of |a||b|
cosineSimilarityOverSecond(vecA, vecB) ==
    IF vecA = Null \/ vecB = Null THEN 0
    ELSE LET a   == vecA[1]
             b   == vecB[1]
         IN  IF Len(a) # Len(b) THEN 0
             ELSE LET acc == DotMag(a, b, Len(a))
                  IN  IF acc[2] * acc[3] = 0 THEN 0
                      ELSE MathRound(Scale * acc[1], acc[3] * acc[3])

\* cosineSimilarity that gives -1 to vectors of different lengths
cosineSimilarityMismatchIsMinusOne(vecA, vecB) ==
    IF vecA = Null \/ vecB = Null THEN 0
    ELSE LET a   == vecA[1]
             b   == vecB[1]
         IN  IF Len(a) # Len(b) THEN -Scale
             ELSE LET acc == DotMag(a, b, Len(a))
                  IN  IF acc[2] * acc[3] = 0 THEN 0
                      ELSE MathRound(Scale * acc[1], acc[2] * acc[3])

\* cosineSimilarity(vecA, vecB), in thousandths; an argument is Null or Some(vector).
\* magnitude = sqrt(magA) * sqrt(magB) is zero exactly when magA * magB is, and
\* dotProduct / magnitude * 1000 is Scale * dot / sqrt(magA * magB).
cosineSimilarity(vecA, vecB) ==
    IF vecA = Null \/ vecB = Null THEN 0
    ELSE LET a == vecA[1]
             b == vecB[1]
         IN  IF Len(a) # Len(b) THEN 0
             ELSE LET acc == DotMag(a, b, Len(a))
                  IN  IF acc[2] * acc[3] = 0 THEN 0
                      ELSE MathRound(Scale * acc[1], acc[2] * acc[3])

---------------------------------------------------------------------------
(* Strings *)

startsWith(s, prefix) ==
    /\ Len(prefix) <= Len(s)
    /\ SubSeq(s, 1, Len(prefix)) = prefix

\* s.slice(n) for 0 <= n
sliceFrom(s, n) == SubSeq(s, n + 1, Len(s))

\* String.prototype.toLowerCase on one character of the model's alphabet
lowerChar(c) ==
    IF c = "P" THEN "p" ELSE IF c = "R" THEN "r" ELSE c

upperChar(c) ==
    IF c = "p" THEN "P" ELSE IF c = "r" THEN "R" ELSE c

toLowerCase(s) == [i \in 1..Len(s) |-> lowerChar(s[i])]

toUpperCase(s) == [i \in 1..Len(s) |-> upperChar(s[i])]

includes(s, c) == \E i \in 1..Len(s) : s[i] = c

---------------------------------------------------------------------------
(* src/ajson-parser.js *)

SOURCE_PREFIX == <<"s","m","a","r","t","_","s","o","u","r","c","e","s",":">>

BLOCK_PREFIX == <<"s","m","a","r","t","_","b","l","o","c","k","s",":">>

\* A line of a record file, after raw.trim():
\*   [form |-> "blank"]                  nothing but whitespace
\*   [form |-> "garbled"]                text JSON.parse rejects once wrapped in braces
\*   [form |-> "truncated"]              a pair cut short by a partial write: rejected too
\*   [form |-> "object", comma, pairs]   text that parses, once wrapped, to an object with
\*                                       these key/value pairs in order; comma tells whether
\*                                       the line ends with one
\* The value of a pair is Null (JSON null or a primitive: no field can be read from it)
\* or Some([path, embeddings]), where
\*   path        is <<"absent">>, <<"null">> or <<"string", p>>
\*   embeddings  is Null or Some([model |-> what embeddings[MODEL_KEY] is]),
\*   model       is Null or Some([vec |-> what its vec field is]),
\*   vec         is Null or Some([array |-> Array.isArray(vec), items |-> its elements]);
\* an element of a JSON array is an integer when it is a number and a string otherwise.
BlankLine == [form |-> "blank"]

GarbledLine == [form |-> "garbled"]

TruncatedLine == [form |-> "truncated"]

\* the line "," : the braces are left empty
EmptyObjectLine == [form |-> "object", comma |-> TRUE, pairs |-> <<>>]

\* a value whose nested path field is path and whose vec field is vec
ValueWith(path, vec) ==
    Some([path |-> path,
          embeddings |-> Some([model |-> Some([vec |-> vec])])])

JsonArray(items) == Some([array |-> TRUE, items |-> items])

\* a vec field that is a string or an object
NotAnArray == Some([array |-> FALSE, items |-> <<>>])

ValueLine(key, value, comma) ==
    [form |-> "object", comma |-> comma, pairs |-> <<[key |-> key, value |-> value]>>]

PairLine(key, vec, comma) == ValueLine(key, ValueWith(<<"absent">>, JsonArray(vec)), comma)

\* the model bucket exists but has no vec field
NoVecLine(key) == ValueLine(key, ValueWith(<<"absent">>, Null), TRUE)

\* the embeddings object has no entry for MODEL_KEY
NoModelLine(key) ==
    ValueLine(key, Some([path |-> <<"absent">>, embeddings |-> Some([model |-> Null])]), TRUE)

\* the value has no embeddings field
NoEmbeddingsLine(key) ==
    ValueLine(key, Some([path |-> <<"absent">>, embeddings |-> Null]), TRUE)

\* x?.field
optionalChain(x, field) == IF x = Null THEN Null ELSE x[1][field]

\* JSON.parse('{' + text + '}'): it throws a SyntaxError, or returns an object whose
\* own keys are those of the pairs, in order
JSONparse(text) ==
    IF text.form = "object" THEN [threw |-> FALSE, pairs |-> text.pairs]
    ELSE [threw |-> TRUE, pairs |-> <<>>]

\* parseLine(line): Null, or Some([key, value]) for the first key of the parsed object;
\* the SyntaxError of JSON.parse is caught
parseLine(line) ==
    IF line.form = "blank" THEN Null
    ELSE LET normalized == IF line.form = "object" THEN [line EXCEPT !.comma = FALSE]
                           ELSE line
             parsed     == JSONparse(normalized)
         IN  IF parsed.threw THEN Null
             ELSE IF Len(parsed.pairs) = 0 THEN Null
             ELSE Some(parsed.pairs[1])

\* resolveKeyMeta(key): Null, or Some([type, path])
resolveKeyMeta(key) ==
    IF startsWith(key, SOURCE_PREFIX)
    THEN Some([type |-> "source", path |-> sliceFrom(key, Len(SOURCE_PREFIX))])
    ELSE IF startsWith(key, BLOCK_PREFIX)
    THEN Some([type |-> "block", path |-> sliceFrom(key, Len(BLOCK_PREFIX))])
    ELSE Null

\* extractVec(value): Null, or Some(vec)
extractVec(value) ==
    LET vec == optionalChain(optionalChain(optionalChain(value, "embeddings"), "model"), "vec")
    IN  IF vec # Null /\ vec[1].array /\ Len(vec[1].items) > 0
        THEN Some(vec[1].items)
        ELSE Null

\* the loop of parseAjsonContent that gives up at the first line JSON.parse rejects
RECURSIVE parseLinesUntilMalformed(_, _)
parseLinesUntilMalformed(content, n) ==
    IF n = 0 THEN <<>>
    ELSE LET entries == parseLinesUntilMalformed(content, n - 1)
             line    == content[n]
             pair    == parseLine(line)
         IN  IF \E i \in 1..n : content[i].form \in {"garbled", "truncated"} THEN <<>>
             ELSE IF line.form = "blank" \/ pair = Null THEN entries
             ELSE LET meta == resolveKeyMeta(pair[1].key)
                      vec  == extractVec(pair[1].value)
                  IN  IF meta = Null \/ vec = Null THEN entries
                      ELSE Append(entries,
                                  [path |-> meta[1].path, vec |-> vec[1], type |-> meta[1].type])

\* the loop of parseAjsonContent with unshift for push
RECURSIVE parseLinesNewestFirst(_, _)
parseLinesNewestFirst(content, n) ==
    IF n = 0 THEN <<>>
    ELSE LET entries == parseLinesNewestFirst(content, n - 1)
             line    == content[n]
             pair    == parseLine(line)
         IN  IF line.form = "blank" \/ pair = Null THEN entries
             ELSE LET meta == resolveKeyMeta(pair[1].key)
                      vec  == extractVec(pair[1].value)
                  IN  IF meta = Null \/ vec = Null THEN entries
                      ELSE <<[path |-> meta[1].path, vec |-> vec[1], type |-> meta[1].type]>>
                           \o entries

\* the loop of parseAjsonContent taking the path from the value's path field when it
\* is a string
RECURSIVE parseLinesPathFromValue(_, _)
parseLinesPathFromValue(content, n) ==
    IF n = 0 THEN <<>>
    ELSE LET entries == parseLinesPathFromValue(content, n - 1)
             line    == content[n]
             pair    == parseLine(line)
         IN  IF line.form = "blank" \/ pair = Null THEN entries
             ELSE LET meta  == resolveKeyMeta(pair[1].key)
                      vec   == extractVec(pair[1].value)
                      field == pair[1].value[1].path
                  IN  IF meta = Null \/ vec = Null THEN entries
                      ELSE Append(entries,
                                  [path |-> IF field[1] = "string" THEN field[2]
                                            ELSE meta[1].path,
                                   vec |-> vec[1], type |-> meta[1].type])

\* the entries parseAjsonContent has pushed after the first n lines of content
RECURSIVE parseLines(_, _)
parseLines(content, n) ==
    IF n = 0 THEN <<>>
    ELSE LET entries == parseLines(content, n - 1)
             line    == content[n]
             pair    == parseLine(line)
         IN  IF line.form = "blank" \/ pair = Null THEN entries
             ELSE LET meta == resolveKeyMeta(pair[1].key)
                      vec  == extractVec(pair[1].value)
                  IN  IF meta = Null \/ vec = Null THEN entries
                      ELSE Append(entries,
                                  [path |-> meta[1].path, vec |-> vec[1], type |-> meta[1].type])

\* An argument of parseAjsonContent: a string, given as its lines (the empty string has
\* none), or a value that is not a string
Text(lines) == [string |-> TRUE, lines |-> lines]

NotText == [string |-> FALSE, lines |-> <<>>]

\* parseAjsonContent(content)
parseAjsonContent(content) ==
    IF ~content.string \/ Len(content.lines) = 0 THEN <<>>
    ELSE parseLines(content.lines, Len(content.lines))

\* Map.prototype.get: Null, or Some(value)
mapGet(m, path) ==
    IF \E i \in 1..Len(m) : m[i].path = path
    THEN Some(m[CHOOSE i \in 1..Len(m) : m[i].path = path])
    ELSE Null

\* a set that leaves an existing key's value alone
mapSetKeepsFirst(m, entry) ==
    IF \E i \in 1..Len(m) : m[i].path = entry.path THEN m ELSE Append(m, entry)

\* Map.prototype.set: an existing key keeps its place in the iteration order
mapSet(m, entry) ==
    IF \E i \in 1..Len(m) : m[i].path = entry.path
    THEN [i \in 1..Len(m) |-> IF m[i].path = entry.path THEN entry ELSE m[i]]
    ELSE Append(m, entry)

\* the Map after embeddings.set for the first n of entries
RECURSIVE setAll(_, _, _)
setAll(m, entries, n) ==
    IF n = 0 THEN m ELSE mapSet(setAll(m, entries, n - 1), entries[n])

---------------------------------------------------------------------------
(* src/search.js *)

DEFAULT_LIMIT == 10

\* 0.3, in thousandths
DEFAULT_THRESHOLD == 300

\* options.x ?? dflt
orDefault(opt, dflt) == IF opt = Null THEN dflt ELSE opt[1]

\* Array.prototype.slice(0, end)
slice0(s, end) ==
    SubSeq(s, 1, IF end < 0 THEN Max(Len(s) + end, 0) ELSE Min(end, Len(s)))

\* an insertion that puts x before the elements of equal score
insertByScoreBeforeEquals(s, x) ==
    LET keep == Cardinality({i \in 1..Len(s) : s[i].score > x.score})
    IN  SubSeq(s, 1, keep) \o <<x>> \o SubSeq(s, keep + 1, Len(s))

\* s with x put after the last element whose score is not smaller, s sorted descending
insertByScore(s, x) ==
    LET keep == Cardinality({i \in 1..Len(s) : s[i].score >= x.score})
    IN  SubSeq(s, 1, keep) \o <<x>> \o SubSeq(s, keep + 1, Len(s))

\* results.sort((a, b) => b.score - a.score) of the first n elements of s; the sort
\* is stable, so equal scores keep their order
RECURSIVE sortByScore(_, _)
sortByScore(s, n) ==
    IF n = 0 THEN <<>> ELSE insertByScore(sortByScore(s, n - 1), s[n])

\* the type pre-filter with === for !==
typeSkipsSameType(options, entry) == options.type # "" /\ entry.type = options.type

\* the type pre-filter of both reduces: TRUE when the entry is skipped
typeSkips(options, entry) == options.type # "" /\ entry.type # options.type

\* the folder pre-filter that leaves the path's case alone
folderSkipsCaseSensitive(options, path) ==
    options.folder # <<>> /\ ~startsWith(path, toLowerCase(options.folder))

\* the folder pre-filter of semanticSearch: TRUE when the entry is skipped
folderSkips(options, path) ==
    options.folder # <<>> /\ ~startsWith(toLowerCase(path), toLowerCase(options.folder))

\* the threshold test with > for >=
keepsScoreStrict(score, threshold) == score > threshold

\* score >= threshold
keepsScore(score, threshold) == score >= threshold

\* the accumulator of semanticSearch's reduce after the first n entries
RECURSIVE searchReduce(_, _, _, _)
searchReduce(entries, n, queryArr, options) ==
    IF n = 0 THEN <<>>
    ELSE LET acc   == searchReduce(entries, n - 1, queryArr, options)
             entry == entries[n]
             score == cosineSimilarity(Some(queryArr), Some(entry.vec))
         IN  IF typeSkips(options, entry) THEN acc
             ELSE IF folderSkips(options, entry.path) THEN acc
             ELSE IF keepsScore(score, orDefault(options.threshold, DEFAULT_THRESHOLD))
                  THEN Append(acc, [path |-> entry.path, score |-> score])
                  ELSE acc

\* semanticSearch that returns the retained pairs unsorted
searchResultsUnsorted(queryArr, map, options) ==
    slice0(searchReduce(map, Len(map), queryArr, options),
           orDefault(options.limit, DEFAULT_LIMIT))

\* what semanticSearch returns once the encoder has resolved to queryArr
searchResults(queryArr, map, options) ==
    LET results == searchReduce(map, Len(map), queryArr, options)
    IN  slice0(sortByScore(results, Len(results)), orDefault(options.limit, DEFAULT_LIMIT))

\* the self-exclusion test that compares vectors instead of paths
isSelfByVector(path, entry, notePath, source) == entry.vec = source.vec

\* path === notePath
isSelf(path, entry, notePath, source) == path = notePath

\* the accumulator of findRelated's reduce after the first n entries
RECURSIVE relatedReduce(_, _, _, _, _)
relatedReduce(entries, n, notePath, source, options) ==
    IF n = 0 THEN <<>>
    ELSE LET acc   == relatedReduce(entries, n - 1, notePath, source, options)
             entry == entries[n]
             score == cosineSimilarity(Some(source.vec), Some(entry.vec))
         IN  IF isSelf(entry.path, entry, notePath, source) THEN acc
             ELSE IF typeSkips(options, entry) THEN acc
             ELSE IF keepsScore(score, orDefault(options.threshold, DEFAULT_THRESHOLD))
                  THEN Append(acc, [path |-> entry.path, score |-> score])
                  ELSE acc

\* the Error findRelated throws: its message is a template literal without any
\* substitution, so nothing is interpolated into the text
notFoundError(notePath) ==
    [name |-> "Error",
     text |-> "findRelated: the requested note path was not found in the embeddings Map",
     interpolated |-> <<>>]

\* findRelated(notePath, map, options): what it returns, or what it throws
findRelated(notePath, map, options) ==
    LET source == mapGet(map, notePath)
    IN  IF source = Null
        THEN [pc |-> "threw", error |-> notFoundError(notePath)]
        ELSE LET results == relatedReduce(map, Len(map), notePath, source[1], options)
             IN  [pc |-> "returned",
                  results |-> slice0(sortByScore(results, Len(results)),
                                     orDefault(options.limit, DEFAULT_LIMIT))]

\* the fixed model identifier of search.js
MODEL_ID == "TaylorAI/bge-micro-v2"

\* the accumulator of getStats's reduce after the first n values of the Map
RECURSIVE statsReduce(_, _)
statsReduce(values, n) ==
    IF n = 0 THEN [totalNotes |-> 0, totalBlocks |-> 0, dimensions |-> 0]
    ELSE LET acc   == statsReduce(values, n - 1)
             entry == values[n]
         IN  [totalNotes  |-> IF entry.type = "source" THEN acc.totalNotes + 1
                              ELSE acc.totalNotes,
              totalBlocks |-> IF entry.type = "block" THEN acc.totalBlocks + 1
                              ELSE acc.totalBlocks,
              dimensions  |-> IF acc.dimensions = 0 THEN Len(entry.vec)
                              ELSE acc.dimensions]

\* a getStats whose dimensions follow the entry visited last
getStatsLastDimensions(map) ==
    LET acc == statsReduce(map, Len(map))
    IN  [totalNotes |-> acc.totalNotes, totalBlocks |-> acc.totalBlocks,
         dimensions |-> IF Len(map) = 0 THEN 0 ELSE Len(map[Len(map)].vec),
         modelId |-> MODEL_ID]

\* getStats(embeddings)
getStats(map) ==
    LET acc == statsReduce(map, Len(map))
    IN  [totalNotes |-> acc.totalNotes, totalBlocks |-> acc.totalBlocks,
         dimensions |-> acc.dimensions, modelId |-> MODEL_ID]

---------------------------------------------------------------------------
(* src/server.js *)

\* A value a promise rejects with or a throw statement throws.  name is "Error" for an
\* Error object, whose message is text, "string" for a primitive string and
\* "undefined" for undefined.
IsNullish(err) == err.name = "undefined"

\* err.message for a value that is not nullish
messageOf(err) == IF err.name = "Error" THEN err.text ELSE "undefined"

\* formatResults(results)
formatResults(results) ==
    IF Len(results) = 0 THEN <<"No results found.">> ELSE results

\* What a tool handler settles with once the operation c has returned or thrown:
\* text content, or the TypeError of reading err.message in its catch block
handlerOutcome(c) ==
    IF c.pc = "returned"
    THEN [outcome |-> "content", tool |-> c.op, isError |-> FALSE,
          text |-> IF c.op = "getStats" THEN <<c.stats>> ELSE formatResults(c.results)]
    ELSE IF IsNullish(c.error)
    THEN [outcome |-> "rejected", tool |-> c.op, isError |-> TRUE,
          text |-> <<"TypeError">>]
    ELSE [outcome |-> "content", tool |-> c.op, isError |-> TRUE,
          text |-> <<"Error running ", messageOf(c.error)>>]

---------------------------------------------------------------------------
(* The vocabulary of the main specification *)

\* no cosineSimilarity call made yet
NoCall == [status |-> "none", value |-> 0]

\* no operation of the orchestrator called yet
IdleCall == [op |-> "none", pc |-> "none", tool |-> FALSE]

PathA == <<"P","/","a">>

PathB == <<"p","/","b","#","h">>

PathC == <<"R","/","c">>

\* a path no record file of the vocabulary defines
PathMissing == <<"P","/","z">>

UNKNOWN_PREFIX == <<"s","m","a","r","t","_","x",":">>

VecX == <<1, 0>>

VecXY == <<1, 1>>

VecNegX == <<-1, 0>>

Vec3 == <<0, 1, 0>>

\* the well-formed lines with a usable vector: per path two kinds and several vectors,
\* among them a Section key without '#' and a Document key with one
RecordLines ==
    { PairLine(SOURCE_PREFIX \o PathA, VecX, TRUE),
      PairLine(SOURCE_PREFIX \o PathA, VecXY, FALSE),
      PairLine(BLOCK_PREFIX \o PathA, VecX, TRUE),
      PairLine(BLOCK_PREFIX \o PathB, VecX, TRUE),
      PairLine(BLOCK_PREFIX \o PathB, VecNegX, FALSE),
      PairLine(SOURCE_PREFIX \o PathB, VecXY, TRUE),
      PairLine(SOURCE_PREFIX \o PathC, VecX, TRUE),
      PairLine(BLOCK_PREFIX \o PathC, Vec3, TRUE),
      PairLine(SOURCE_PREFIX \o PathC, VecNegX, TRUE) }

\* lines that yield nothing
SkippedLines ==
    { BlankLine, GarbledLine,
      PairLine(UNKNOWN_PREFIX \o PathA, VecX, TRUE),
      NoVecLine(SOURCE_PREFIX \o PathA) }

Lines == RecordLines \cup SkippedLines

FileContents == SeqsUpTo(Lines, MaxLines)

\* An entry of the record subdirectory: whether its name ends with '.ajson' and what
\* fs.readFile gives for it, Null when it rejects, else Some(the lines of the text)
OtherFile == [ajson |-> FALSE, read |-> Null]

UnreadableFile == [ajson |-> TRUE, read |-> Null]

RecordFile(content) == [ajson |-> TRUE, read |-> Some(content)]

Files == {OtherFile, UnreadableFile} \cup {RecordFile(content) : content \in FileContents}

\* what fs.readdir resolves to
Directories == SeqsUpTo(Files, MaxFiles)

\* fs.readdir has not settled
NotListed == [readdir |-> "pending", names |-> <<>>, opened |-> {}]

\* no tool handler has answered yet
NoResponse == [outcome |-> "none"]

\* no parseAjsonContent call made yet
NoParse == [status |-> "none", entries |-> <<>>]

\* main has not been called: the functions are used by other callers
NoMain == [pc |-> "none", warned |-> FALSE]

\* no readNote call made yet
NoNote == [notePath |-> <<>>, vaultPath |-> <<>>]

NoRead == [status |-> "none"]

Limits == {Null} \cup {Some(n) : n \in -1..MaxLimit}

\* absent (0.3), -1, 0 and 0.707
Thresholds == {Null, Some(-1000), Some(0), Some(707)}

Types == {"", "source", "block"}

Folders == {<<>>, <<"p","/">>, <<"P","/">>}

SearchOptions ==
    [limit : Limits, threshold : Thresholds, type : Types, folder : Folders]

\* findRelated reads limit, threshold and type only
RelatedOptions ==
    [limit : Limits, threshold : Thresholds, type : Types, folder : {<<>>}]

\* what the encoder resolves to
QueryVectors == {VecX, Vec3}

NotePaths == {PathA, PathB, PathC, PathMissing}

\* what the encoder rejects with: the Error of validateText, an Error of the model
\* pipeline, a primitive string, undefined
EncoderRejections ==
    { [name |-> "Error", interpolated |-> <<>>,
       text |-> "encode() received an empty or whitespace-only string"],
      [name |-> "Error", text |-> "model crashed", interpolated |-> <<>>],
      [name |-> "string", text |-> "model crashed", interpolated |-> <<>>],
      [name |-> "undefined", text |-> "", interpolated |-> <<>>] }

---------------------------------------------------------------------------
(* The main specification: loadEmbeddings builds the Map, then the          *)
(* operations of the search orchestrator run against it.                    *)

Init ==
    /\ embeddings = <<>>
    /\ loadPc = "readdir"
    /\ filesLeft = 0
    /\ files = NotListed
    /\ call = IdleCall
    /\ response = NoResponse
    /\ simA = Null
    /\ simB = Null
    /\ simOut = NoCall
    /\ parseIn = NotText
    /\ parseOut = NoParse
    /\ mainPc = NoMain
    /\ inflight = <<>>
    /\ pipe = Null
    /\ pipelineCalls = <<>>
    /\ encoders = <<>>
    /\ noteIn = NoNote
    /\ noteOut = NoRead

\* loadEmbeddings without the try around fs.readdir: the rejection reaches the caller
ReadDirFailsUncaught ==
    /\ loadPc = "readdir"
    /\ loadPc' = "failed"
    /\ files' = [readdir |-> "rejected", names |-> <<>>, opened |-> {}]
    /\ UNCHANGED <<embeddings, filesLeft, call, simA, simB, simOut,
                   response, parseIn, parseOut,
                   mainPc, inflight, embedderVars, readerVars>>

\* fs.readdir rejects: loadEmbeddings returns a new empty Map
ReadDirFails ==
    /\ loadPc = "readdir"
    /\ embeddings' = <<>>
    /\ loadPc' = "ready"
    /\ files' = [readdir |-> "rejected", names |-> <<>>, opened |-> {}]
    /\ UNCHANGED <<filesLeft, call, simA, simB, simOut, response, parseIn, parseOut,
                   mainPc, inflight, embedderVars, readerVars>>

\* fs.readdir resolves to the names of the directory; the new Map is empty
ReadDir ==
    /\ loadPc = "readdir"
    /\ \E listing \in Directories :
          /\ files' = [readdir |-> "resolved", names |-> listing, opened |-> {}]
          /\ filesLeft' = Len(listing)
    /\ loadPc' = "files"
    /\ embeddings' = <<>>
    /\ UNCHANGED <<call, simA, simB, simOut, response, parseIn, parseOut,
                   mainPc, inflight, embedderVars, readerVars>>

\* position in the listing of the entry loadEmbeddings visits next
filePos == Len(files.names) - filesLeft + 1

\* the next name of the listing does not end with '.ajson': the filter drops it
SkipOtherFile ==
    /\ loadPc = "files"
    /\ filesLeft > 0
    /\ ~files.names[filePos].ajson
    /\ filesLeft' = filesLeft - 1
    /\ UNCHANGED <<embeddings, loadPc, files, call, simA, simB, simOut,
                   response, parseIn, parseOut,
                   mainPc, inflight, embedderVars, readerVars>>

\* a catch around fs.readFile that returns a new empty Map instead of continuing
ReadFileFailsGivesUp ==
    /\ loadPc = "files"
    /\ filesLeft > 0
    /\ files.names[filePos].ajson
    /\ files.names[filePos].read = Null
    /\ files' = [files EXCEPT !.opened = @ \cup {filePos}]
    /\ embeddings' = <<>>
    /\ filesLeft' = 0
    /\ UNCHANGED <<loadPc, call, simA, simB, simOut, response, parseIn, parseOut,
                   mainPc, inflight, embedderVars, readerVars>>

\* fs.readFile rejects for the next .ajson file: continue
ReadFileFails ==
    /\ loadPc = "files"
    /\ filesLeft > 0
    /\ files.names[filePos].ajson
    /\ files.names[filePos].read = Null
    /\ files' = [files EXCEPT !.opened = @ \cup {filePos}]
    /\ filesLeft' = filesLeft - 1
    /\ UNCHANGED <<embeddings, loadPc, call, simA, simB, simOut,
                   response, parseIn, parseOut,
                   mainPc, inflight, embedderVars, readerVars>>

\* fs.readFile resolves to content: parse it and set every entry
LoadFile ==
    /\ loadPc = "files"
    /\ filesLeft > 0
    /\ files.names[filePos].ajson
    /\ files.names[filePos].read # Null
    /\ LET content == files.names[filePos].read[1]
           entries == parseAjsonContent(Text(content))
           stored  == [i \in 1..Len(entries) |->
                         [path |-> entries[i].path, vec |-> entries[i].vec,
                          type |-> entries[i].type]]
       IN  embeddings' = setAll(embeddings, stored, Len(stored))
    /\ files' = [files EXCEPT !.opened = @ \cup {filePos}]
    /\ filesLeft' = filesLeft - 1
    /\ UNCHANGED <<loadPc, call, simA, simB, simOut, response, parseIn, parseOut,
                   mainPc, inflight, embedderVars, readerVars>>

\* the loop is over: return embeddings; the listing goes out of scope
ReturnMap ==
    /\ loadPc = "files"
    /\ filesLeft = 0
    /\ loadPc' = "ready"
    /\ files' = [readdir |-> "resolved", names |-> <<>>, opened |-> {}]
    /\ UNCHANGED <<embeddings, filesLeft, call, simA, simB, simOut,
                   response, parseIn, parseOut,
                   mainPc, inflight, embedderVars, readerVars>>

\* the caller has no call outstanding
Quiet == call.op = "none"

\* semanticSearch up to its await: the options are read, the encoder is called once.
\* The call comes from the semantic_search handler, which passes limit and threshold
\* only, or from another caller.
StartSearch ==
    /\ loadPc = "ready"
    /\ Quiet
    /\ \E options \in SearchOptions, tool \in BOOLEAN :
          /\ tool => (options.type = "" /\ options.folder = <<>>)
          /\ call' = [op |-> "semanticSearch", pc |-> "awaitEncode", tool |-> tool,
                      options |-> options, encodeCalls |-> 1]
    /\ UNCHANGED <<embeddings, loadPc, filesLeft, files, simA, simB, simOut,
                   response, parseIn, parseOut,
                   mainPc, inflight, embedderVars, readerVars>>

\* Array.from(queryVec): a new array with the elements of the typed array
ArrayFrom(queryVec) == [i \in 1..Len(queryVec) |-> queryVec[i]]

\* a semanticSearch whose reduce deletes from the Map the entries it does not return
EncodeResolvesPrunesMap ==
    /\ call.op = "semanticSearch"
    /\ call.pc = "awaitEncode"
    /\ \E queryVec \in QueryVectors :
          LET results == searchResults(ArrayFrom(queryVec), embeddings, call.options)
              Returned(entry) == \E i \in 1..Len(results) : results[i].path = entry.path
          IN  /\ call' = [op |-> "semanticSearch", pc |-> "returned", tool |-> call.tool,
                          options |-> call.options, encodeCalls |-> call.encodeCalls,
                          queryVec |-> queryVec, queryArr |-> ArrayFrom(queryVec),
                          results |-> results]
              /\ embeddings' = SelectSeq(embeddings, Returned)
    /\ UNCHANGED <<loadPc, filesLeft, files, simA, simB, simOut,
                   response, parseIn, parseOut,
                   mainPc, inflight, embedderVars, readerVars>>

\* the encoder resolves: the rest of semanticSearch runs to its return. queryVec is
\* the encoder's typed array as it is after the call, queryArr the copy that is scored.
EncodeResolves ==
    /\ call.op = "semanticSearch"
    /\ call.pc = "awaitEncode"
    /\ \E queryVec \in QueryVectors :
          call' = [op |-> "semanticSearch", pc |-> "returned", tool |-> call.tool,
                   options |-> call.options, encodeCalls |-> call.encodeCalls,
                   queryVec |-> queryVec, queryArr |-> ArrayFrom(queryVec),
                   results |-> searchResults(ArrayFrom(queryVec), embeddings,
                                             call.options)]
    /\ UNCHANGED <<embeddings, loadPc, filesLeft, files, simA, simB, simOut,
                   response, parseIn, parseOut,
                   mainPc, inflight, embedderVars, readerVars>>

\* a semanticSearch that catches the rejection and throws an error of its own
EncodeRejectsWrapped ==
    /\ call.op = "semanticSearch"
    /\ call.pc = "awaitEncode"
    /\ \E rejection \in EncoderRejections :
          call' = [op |-> "semanticSearch", pc |-> "threw", tool |-> call.tool,
                   options |-> call.options, encodeCalls |-> call.encodeCalls,
                   rejection |-> rejection,
                   error |-> [name |-> "Error", text |-> "search failed",
                              interpolated |-> <<>>]]
    /\ UNCHANGED <<embeddings, loadPc, filesLeft, files, simA, simB, simOut,
                   response, parseIn, parseOut,
                   mainPc, inflight, embedderVars, readerVars>>

\* the encoder rejects: the await rethrows what it rejected with, and nothing after
\* the await runs
EncodeRejects ==
    /\ call.op = "semanticSearch"
    /\ call.pc = "awaitEncode"
    /\ \E rejection \in EncoderRejections :
          call' = [op |-> "semanticSearch", pc |-> "threw", tool |-> call.tool,
                   options |-> call.options, encodeCalls |-> call.encodeCalls,
                   rejection |-> rejection, error |-> rejection]
    /\ UNCHANGED <<embeddings, loadPc, filesLeft, files, simA, simB, simOut,
                   response, parseIn, parseOut,
                   mainPc, inflight, embedderVars, readerVars>>

\* findRelated, synchronous; the find_related handler passes limit only
FindRelated ==
    /\ loadPc = "ready"
    /\ Quiet
    /\ \E notePath \in NotePaths, options \in RelatedOptions, tool \in BOOLEAN :
          /\ tool => (options.type = "" /\ options.threshold = Null)
          /\ LET out == findRelated(notePath, embeddings, options)
             IN  call' = IF out.pc = "threw"
                         THEN [op |-> "findRelated", pc |-> "threw", tool |-> tool,
                               notePath |-> notePath, options |-> options,
                               error |-> out.error]
                         ELSE [op |-> "findRelated", pc |-> "returned", tool |-> tool,
                               notePath |-> notePath, options |-> options,
                               results |-> out.results]
    /\ UNCHANGED <<embeddings, loadPc, filesLeft, files, simA, simB, simOut,
                   response, parseIn, parseOut,
                   mainPc, inflight, embedderVars, readerVars>>

\* getStats, synchronous
GetStats ==
    /\ loadPc = "ready"
    /\ Quiet
    /\ \E tool \in BOOLEAN :
          call' = [op |-> "getStats", pc |-> "returned", tool |-> tool,
                   stats |-> getStats(embeddings)]
    /\ UNCHANGED <<embeddings, loadPc, filesLeft, files, simA, simB, simOut,
                   response, parseIn, parseOut,
                   mainPc, inflight, embedderVars, readerVars>>

\* the rest of a tool handler: the value is formatted, or the catch block formats the
\* error, and the handler's promise settles
Respond ==
    /\ call.pc \in {"returned", "threw"}
    /\ call.tool
    /\ response' = handlerOutcome(call)
    /\ call' = [call EXCEPT !.pc = "responded"]
    /\ UNCHANGED <<embeddings, loadPc, filesLeft, files, simA, simB, simOut, parseIn, parseOut,
                   mainPc, inflight, embedderVars, readerVars>>

\* the caller has taken the value or the error of its call, or the client the
\* response of the tool, and may call again
Settle ==
    /\ \/ call.pc \in {"returned", "threw"} /\ ~call.tool
       \/ call.pc = "responded"
    /\ call' = IdleCall
    /\ response' = NoResponse
    /\ UNCHANGED <<embeddings, loadPc, filesLeft, files, simA, simB, simOut, parseIn, parseOut,
                   mainPc, inflight, embedderVars, readerVars>>

Next ==
    \/ ReadDirFails
    \/ ReadDir
    \/ SkipOtherFile
    \/ ReadFileFails
    \/ LoadFile
    \/ ReturnMap
    \/ StartSearch
    \/ EncodeResolves
    \/ EncodeRejects
    \/ FindRelated
    \/ GetStats
    \/ Respond
    \/ Settle

Spec == Init /\ [][Next]_vars

---------------------------------------------------------------------------
(* The similarity specification: cosineSimilarity applied to every pair of *)
(* arguments of a bounded vocabulary.                                      *)

Components == {-1, 0, 1}

\* two 5-dimensional vectors of squared length 16 whose cosine is 15/16 = 0.9375,
\* exactly halfway between 0.937 and 0.938, and their negations
HalfA == <<3, 2, 1, 1, 1>>

HalfB == <<2, 3, 1, 1, 1>>

Neg(v) == [i \in 1..Len(v) |-> -v[i]]

SimVectors == SeqsUpTo(Components, MaxDim) \cup {HalfA, HalfB, Neg(HalfA), Neg(HalfB)}

SimArgs == {Null} \cup {Some(v) : v \in SimVectors}

InitSim ==
    /\ embeddings = <<>>
    /\ loadPc = "ready"
    /\ filesLeft = 0
    /\ files = NotListed
    /\ response = NoResponse
    /\ parseIn = NotText
    /\ parseOut = NoParse
    /\ mainPc = NoMain
    /\ inflight = <<>>
    /\ pipe = Null
    /\ pipelineCalls = <<>>
    /\ encoders = <<>>
    /\ noteIn = NoNote
    /\ noteOut = NoRead
    /\ call = IdleCall
    /\ simA \in SimArgs
    /\ simB \in SimArgs
    /\ simOut = NoCall

\* one call cosineSimilarity(simA, simB); the function has no throw and reads only
\* its arguments, so it returns a value for every pair
Compare ==
    /\ simOut.status = "none"
    /\ simOut' = [status |-> "returned", value |-> cosineSimilarity(simA, simB)]
    /\ UNCHANGED <<embeddings, loadPc, filesLeft, files, call, simA, simB,
                   response, parseIn, parseOut,
                   mainPc, inflight, embedderVars, readerVars>>

NextSim == Compare

SpecSim == InitSim /\ [][NextSim]_vars

---------------------------------------------------------------------------
(* The parser specification: parseAjsonContent applied to every content of *)
(* a bounded vocabulary of lines.                                          *)

\* the JSON array ["x"]
NotNumbers == <<"x">>

\* one line holding two pairs, each of them well-formed with a usable vector
TwoPairsLine ==
    [form |-> "object", comma |-> TRUE,
     pairs |-> <<[key |-> SOURCE_PREFIX \o PathC,
                  value |-> ValueWith(<<"absent">>, JsonArray(VecX))],
                 [key |-> BLOCK_PREFIX \o PathB,
                  value |-> ValueWith(<<"null">>, JsonArray(VecXY))]>>]

ParseLines ==
    { BlankLine, GarbledLine, TruncatedLine, EmptyObjectLine, TwoPairsLine,
      ValueLine(SOURCE_PREFIX \o PathA, ValueWith(<<"string", PathA>>, JsonArray(VecX)), TRUE),
      ValueLine(BLOCK_PREFIX \o PathB, ValueWith(<<"null">>, JsonArray(VecNegX)), FALSE),
      ValueLine(SOURCE_PREFIX \o PathB, ValueWith(<<"string", PathC>>, JsonArray(VecXY)), TRUE),
      PairLine(BLOCK_PREFIX \o PathA, Vec3, TRUE),
      PairLine(UNKNOWN_PREFIX \o PathA, VecX, TRUE),
      ValueLine(SOURCE_PREFIX \o PathA, Null, TRUE),
      NoEmbeddingsLine(SOURCE_PREFIX \o PathA),
      NoModelLine(BLOCK_PREFIX \o PathB),
      NoVecLine(SOURCE_PREFIX \o PathA),
      ValueLine(SOURCE_PREFIX \o PathA, ValueWith(<<"absent">>, NotAnArray), TRUE),
      PairLine(SOURCE_PREFIX \o PathA, <<>>, TRUE),
      PairLine(SOURCE_PREFIX \o PathC, NotNumbers, TRUE) }

ParseContents == {NotText} \cup {Text(lines) : lines \in SeqsUpTo(ParseLines, MaxParseLines)}

InitParse ==
    /\ embeddings = <<>>
    /\ loadPc = "ready"
    /\ filesLeft = 0
    /\ files = NotListed
    /\ call = IdleCall
    /\ response = NoResponse
    /\ simA = Null
    /\ simB = Null
    /\ simOut = NoCall
    /\ parseIn \in ParseContents
    /\ parseOut = NoParse
    /\ mainPc = NoMain
    /\ inflight = <<>>
    /\ pipe = Null
    /\ pipelineCalls = <<>>
    /\ encoders = <<>>
    /\ noteIn = NoNote
    /\ noteOut = NoRead

\* one call parseAjsonContent(parseIn)
Parse ==
    /\ parseOut.status = "none"
    /\ parseOut' = [status |-> "returned", entries |-> parseAjsonContent(parseIn)]
    /\ UNCHANGED <<embeddings, loadPc, filesLeft, files, call, response,
                   simA, simB, simOut, parseIn,
                   mainPc, inflight, embedderVars, readerVars>>

NextParse == Parse

SpecParse == InitParse /\ [][NextParse]_vars

---------------------------------------------------------------------------
(* The loader specification: the loop of loadEmbeddings over every listing *)
(* of a bounded vocabulary of directory entries, from the point where      *)
(* fs.readdir has resolved.                                                *)

\* a file whose name does not end with '.ajson' and whose text is a well-formed line
NotesFile == [ajson |-> FALSE, read |-> Some(<<PairLine(SOURCE_PREFIX \o PathC, VecX, TRUE)>>)]

LoadFiles ==
    { NotesFile, UnreadableFile, RecordFile(<<>>),
      RecordFile(<<PairLine(SOURCE_PREFIX \o PathA, VecX, TRUE)>>),
      RecordFile(<<PairLine(BLOCK_PREFIX \o PathB, VecNegX, FALSE)>>),
      RecordFile(<<PairLine(SOURCE_PREFIX \o PathA, VecXY, TRUE),
                   PairLine(BLOCK_PREFIX \o PathC, Vec3, TRUE)>>) }

LoadListings == SeqsUpTo(LoadFiles, MaxListed)

InitLoad ==
    /\ embeddings = <<>>
    /\ loadPc = "files"
    /\ \E listing \in LoadListings :
          /\ files = [readdir |-> "resolved", names |-> listing, opened |-> {}]
          /\ filesLeft = Len(listing)
    /\ call = IdleCall
    /\ response = NoResponse
    /\ simA = Null
    /\ simB = Null
    /\ simOut = NoCall
    /\ parseIn = NotText
    /\ parseOut = NoParse
    /\ mainPc = NoMain
    /\ inflight = <<>>
    /\ pipe = Null
    /\ pipelineCalls = <<>>
    /\ encoders = <<>>
    /\ noteIn = NoNote
    /\ noteOut = NoRead

NextLoad ==
    \/ SkipOtherFile
    \/ ReadFileFails
    \/ LoadFile
    \/ ReturnMap

SpecLoad == InitLoad /\ [][NextLoad]_vars

\* ---------------------------------------------------------------------------
\* Concurrent callers of semanticSearch and findRelated on one loaded Map. Every
\* call has its own parameters and locals; a semanticSearch is suspended at
\* 'await embedder.encode(query)' while other calls start, resume and finish.

\* number of calls that can be in progress together
MaxCalls == 2

Slots == 1..MaxCalls

\* the query strings, and the vector the encoder resolves to for each of them
Queries == {"q1", "q2"}

EncodingOf(query) == IF query = "q1" THEN VecX ELSE VecXY

SharedMap ==
    <<[path |-> PathA, vec |-> VecX, type |-> "source"],
      [path |-> PathB, vec |-> VecXY, type |-> "block"],
      [path |-> PathC, vec |-> VecNegX, type |-> "source"]>>

SharedMaps == {SharedMap, SubSeq(SharedMap, 1, 1)}

SharedOptions ==
    [limit : {Null, Some(1)}, threshold : {Null, Some(0)}, type : {""}, folder : {<<>>}]

SharedRejection == [name |-> "Error", text |-> "model failed", interpolated |-> <<>>]

InitShared ==
    /\ embeddings \in SharedMaps
    /\ loadPc = "ready"
    /\ filesLeft = 0
    /\ files = NotListed
    /\ call = IdleCall
    /\ response = NoResponse
    /\ simA = Null
    /\ simB = Null
    /\ simOut = NoCall
    /\ parseIn = NotText
    /\ parseOut = NoParse
    /\ mainPc = NoMain
    /\ inflight = [i \in Slots |-> IdleCall]
    /\ pipe = Null
    /\ pipelineCalls = <<>>
    /\ encoders = <<>>
    /\ noteIn = NoNote
    /\ noteOut = NoRead

\* the calls other than i that are suspended at the encoder
Suspended(i) == {j \in Slots \ {i} : inflight[j].pc = "awaitEncode"}

\* semanticSearch up to its await, in a caller of its own
SharedStartSearch(i) ==
    /\ inflight[i].op = "none"
    /\ \E query \in Queries, options \in SharedOptions :
          inflight' = [inflight EXCEPT ![i] =
                          [op |-> "semanticSearch", pc |-> "awaitEncode", tool |-> FALSE,
                           query |-> query, options |-> options]]
    /\ UNCHANGED <<embeddings, loadPc, filesLeft, files, call, response, simA, simB,
                   simOut, parseIn, parseOut, mainPc, embedderVars, readerVars>>

\* a semanticSearch that keeps the query of the call in a variable of the module:
\* a resumed call scores the query of a call that is still suspended
SharedEncodeResolvesModuleQuery(i) ==
    /\ inflight[i].op = "semanticSearch"
    /\ inflight[i].pc = "awaitEncode"
    /\ LET scored == IF Suspended(i) = {} THEN inflight[i].query
                      ELSE inflight[CHOOSE j \in Suspended(i) : TRUE].query
       IN  inflight' = [inflight EXCEPT ![i] =
                          [op |-> "semanticSearch", pc |-> "returned", tool |-> FALSE,
                           query |-> inflight[i].query, options |-> inflight[i].options,
                           others |-> Cardinality(Suspended(i)),
                           results |-> searchResults(ArrayFrom(EncodingOf(scored)),
                                                     embeddings, inflight[i].options)]]
    /\ UNCHANGED <<embeddings, loadPc, filesLeft, files, call, response, simA, simB,
                   simOut, parseIn, parseOut, mainPc, embedderVars, readerVars>>

\* the encoder resolves for call i: the rest of that semanticSearch runs to its return
\* with the query, the options and the results array of that call; others is the
\* number of calls suspended at the encoder at that moment
SharedEncodeResolves(i) ==
    /\ inflight[i].op = "semanticSearch"
    /\ inflight[i].pc = "awaitEncode"
    /\ inflight' = [inflight EXCEPT ![i] =
                       [op |-> "semanticSearch", pc |-> "returned", tool |-> FALSE,
                        query |-> inflight[i].query, options |-> inflight[i].options,
                        others |-> Cardinality(Suspended(i)),
                        results |-> searchResults(ArrayFrom(EncodingOf(inflight[i].query)),
                                                  embeddings, inflight[i].options)]]
    /\ UNCHANGED <<embeddings, loadPc, filesLeft, files, call, response, simA, simB,
                   simOut, parseIn, parseOut, mainPc, embedderVars, readerVars>>

\* the encoder rejects for call i: that call throws, the other calls stay as they are
SharedEncodeRejects(i) ==
    /\ inflight[i].op = "semanticSearch"
    /\ inflight[i].pc = "awaitEncode"
    /\ inflight' = [inflight EXCEPT ![i] =
                       [op |-> "semanticSearch", pc |-> "threw", tool |-> FALSE,
                        query |-> inflight[i].query, options |-> inflight[i].options,
                        others |-> Cardinality(Suspended(i)),
                        error |-> SharedRejection]]
    /\ UNCHANGED <<embeddings, loadPc, filesLeft, files, call, response, simA, simB,
                   simOut, parseIn, parseOut, mainPc, embedderVars, readerVars>>

\* findRelated has no await: it runs from entry to return in one step, possibly while
\* searches are suspended
SharedFindRelated(i) ==
    /\ inflight[i].op = "none"
    /\ \E notePath \in {PathA, PathB, PathMissing}, options \in SharedOptions :
          LET out == findRelated(notePath, embeddings, options)
          IN  inflight' = [inflight EXCEPT ![i] =
                  IF out.pc = "threw"
                  THEN [op |-> "findRelated", pc |-> "threw", tool |-> FALSE,
                        notePath |-> notePath, options |-> options,
                        others |-> Cardinality(Suspended(i)), error |-> out.error]
                  ELSE [op |-> "findRelated", pc |-> "returned", tool |-> FALSE,
                        notePath |-> notePath, options |-> options,
                        others |-> Cardinality(Suspended(i)), results |-> out.results]]
    /\ UNCHANGED <<embeddings, loadPc, filesLeft, files, call, response, simA, simB,
                   simOut, parseIn, parseOut, mainPc, embedderVars, readerVars>>

\* the caller of call i has taken its value or its error
SharedSettle(i) ==
    /\ inflight[i].pc \in {"returned", "threw"}
    /\ inflight' = [inflight EXCEPT ![i] = IdleCall]
    /\ UNCHANGED <<embeddings, loadPc, filesLeft, files, call, response, simA, simB,
                   simOut, parseIn, parseOut, mainPc, embedderVars, readerVars>>

NextShared ==
    \/ \E i \in Slots : SharedStartSearch(i)
    \/ \E i \in Slots : SharedEncodeResolves(i)
    \/ \E i \in Slots : SharedEncodeRejects(i)
    \/ \E i \in Slots : SharedFindRelated(i)
    \/ \E i \in Slots : SharedSettle(i)

SpecShared == InitShared /\ [][NextShared]_vars

\* ---------------------------------------------------------------------------
\* Calls on a Map with more records than the default limit.

\* largest number of records in such a Map
MaxRecords == 13

RecordNames == <<"a", "b", "c", "d", "e", "f", "g", "h", "i", "j", "k", "l", "m", "n", "o">>

\* a Map of n source records whose vectors all score at least 0.7 against VecX
ManyRecords(n) ==
    [k \in 1..n |-> [path |-> <<"P", "/", RecordNames[k]>>,
                     vec |-> IF k % 2 = 1 THEN VecX ELSE VecXY,
                     type |-> "source"]]

InitMany ==
    /\ \E n \in 0..MaxRecords : embeddings = ManyRecords(n)
    /\ loadPc = "ready"
    /\ filesLeft = 0
    /\ files = NotListed
    /\ call = IdleCall
    /\ response = NoResponse
    /\ simA = Null
    /\ simB = Null
    /\ simOut = NoCall
    /\ parseIn = NotText
    /\ parseOut = NoParse
    /\ mainPc = NoMain
    /\ inflight = <<>>
    /\ pipe = Null
    /\ pipelineCalls = <<>>
    /\ encoders = <<>>
    /\ noteIn = NoNote
    /\ noteOut = NoRead

NextMany ==
    \/ StartSearch
    \/ EncodeResolves
    \/ EncodeRejects
    \/ FindRelated
    \/ GetStats
    \/ Respond
    \/ Settle

SpecMany == InitMany /\ [][NextMany]_vars

\* ---------------------------------------------------------------------------
\* reader.js on a POSIX file system: paths are strings, path.resolve works on
\* their segments, isPathSafe compares the resolved strings.

MAX_CONTENT_LENGTH == 10000

\* largest number of segments of a note path
MaxSegments == 3

\* str.indexOf(ch), counted from 0; -1 when ch does not occur
indexOf(str, ch) ==
    IF \E i \in 1..Len(str) : str[i] = ch
    THEN (CHOOSE i \in 1..Len(str) : str[i] = ch /\ \A j \in 1..(i - 1) : str[j] # ch) - 1
    ELSE -1

\* the file path of a note or block path: everything before the first '#'
extractNotePath(notePath) ==
    LET hashIndex == indexOf(notePath, "#")
    IN  IF hashIndex = -1 THEN notePath ELSE SubSeq(notePath, 1, hashIndex)

\* the segments of a path string between its separators
RECURSIVE segmentsOf(_)
segmentsOf(str) ==
    LET sepIndex == indexOf(str, "/")
    IN  IF sepIndex = -1 THEN <<str>>
        ELSE <<SubSeq(str, 1, sepIndex)>> \o segmentsOf(SubSeq(str, sepIndex + 2, Len(str)))

\* path normalisation over the first n segments: empty and '.' segments are dropped,
\* '..' removes the segment before it and is dropped at the root
RECURSIVE normalizeSegments(_, _)
normalizeSegments(segments, n) ==
    IF n = 0 THEN <<>>
    ELSE LET acc == normalizeSegments(segments, n - 1)
             seg == segments[n]
         IN  IF seg = <<>> \/ seg = <<".">> THEN acc
             ELSE IF seg = <<".", ".">>
                  THEN IF acc = <<>> THEN <<>> ELSE SubSeq(acc, 1, Len(acc) - 1)
                  ELSE Append(acc, seg)

\* the absolute path string of the first n of normalised segments
RECURSIVE joinSegments(_, _)
joinSegments(segments, n) ==
    IF n = 0 THEN <<>> ELSE joinSegments(segments, n - 1) \o <<"/">> \o segments[n]

isAbsolute(str) == str # <<>> /\ str[1] = "/"

\* the working directory of the process
Cwd == <<"/", "w">>

\* path.resolve(from, to): the arguments are taken from the right until one is
\* absolute, the working directory being the last resort, and the result is normalised
pathResolve(from, to) ==
    LET joined == IF isAbsolute(to) THEN to
                  ELSE IF isAbsolute(from) THEN from \o <<"/">> \o to
                  ELSE Cwd \o <<"/">> \o from \o <<"/">> \o to
        raw    == segmentsOf(joined)
        segs   == normalizeSegments(raw, Len(raw))
    IN  IF segs = <<>> THEN <<"/">> ELSE joinSegments(segs, Len(segs))

\* isPathSafe without the separator appended to the vault
isPathSafeBarePrefix(notePath, vaultPath) ==
    startsWith(pathResolve(vaultPath, notePath), pathResolve(vaultPath, <<>>))

isPathSafe(notePath, vaultPath) ==
    LET resolvedVault == pathResolve(vaultPath, <<>>)
        resolvedNote  == pathResolve(vaultPath, notePath)
    IN  startsWith(resolvedNote, resolvedVault \o <<"/">>) \/ resolvedNote = resolvedVault

\* the segments note paths are made of: names, the parent and the current directory,
\* the vault's own name, a name that begins with the vault's name, and nothing
PathSegments == {<<"n">>, <<".", ".">>, <<".">>, <<"v">>, <<"v", "b">>, <<>>}

RECURSIVE relativeOf(_, _)
relativeOf(segments, n) ==
    IF n = 0 THEN <<>>
    ELSE IF n = 1 THEN segments[1]
    ELSE relativeOf(segments, n - 1) \o <<"/">> \o segments[n]

Fragments == {<<>>, <<"#", "h">>, <<"#", "/", ".", ".", "/", ".", ".">>}

NoteArguments ==
    {lead \o relativeOf(segs, Len(segs)) \o fragment :
        lead \in {<<>>, <<"/">>}, segs \in SeqsUpTo(PathSegments, MaxSegments),
        fragment \in Fragments}

\* VAULT_PATH: absolute, with a trailing separator, the root, relative
VaultPaths == {<<"/", "v">>, <<"/", "v", "/">>, <<"/">>, <<"v">>}

\* raw.length of the files read
RawLengths == {0, MAX_CONTENT_LENGTH, MAX_CONTENT_LENGTH + 1}

InitRead ==
    /\ noteIn \in [notePath : NoteArguments, vaultPath : VaultPaths]
    /\ noteOut = NoRead
    /\ embeddings = <<>>
    /\ loadPc = "ready"
    /\ filesLeft = 0
    /\ files = NotListed
    /\ call = IdleCall
    /\ response = NoResponse
    /\ simA = Null
    /\ simB = Null
    /\ simOut = NoCall
    /\ parseIn = NotText
    /\ parseOut = NoParse
    /\ mainPc = NoMain
    /\ inflight = <<>>
    /\ pipe = Null
    /\ pipelineCalls = <<>>
    /\ encoders = <<>>

\* readNote up to its throw or its await: reads counts the fs.readFile calls
ReadNote ==
    /\ noteOut.status = "none"
    /\ LET filePath == extractNotePath(noteIn.notePath)
       IN  noteOut' =
              IF ~isPathSafe(filePath, noteIn.vaultPath)
              THEN [status |-> "threw", text |-> "resolves outside the vault",
                    interpolated |-> filePath, reads |-> 0]
              ELSE [status |-> "awaitRead", reads |-> 1,
                    fullPath |-> pathResolve(noteIn.vaultPath, filePath)]
    /\ UNCHANGED <<embeddings, loadPc, filesLeft, files, call, response, simA, simB,
                   simOut, parseIn, parseOut, mainPc, inflight, embedderVars, noteIn>>

\* fs.readFile resolves: the content is cut at MAX_CONTENT_LENGTH characters
ReadFileResolves ==
    /\ noteOut.status = "awaitRead"
    /\ \E rawLength \in RawLengths :
          noteOut' = [status |-> "returned", reads |-> noteOut.reads,
                      fullPath |-> noteOut.fullPath,
                      contentLength |-> Min(rawLength, MAX_CONTENT_LENGTH),
                      truncated |-> rawLength > MAX_CONTENT_LENGTH]
    /\ UNCHANGED <<embeddings, loadPc, filesLeft, files, call, response, simA, simB,
                   simOut, parseIn, parseOut, mainPc, inflight, embedderVars, noteIn>>

\* fs.readFile rejects (no such file, a directory): readNote rejects with that error
ReadFileRejects ==
    /\ noteOut.status = "awaitRead"
    /\ noteOut' = [status |-> "rejected", reads |-> noteOut.reads,
                   fullPath |-> noteOut.fullPath]
    /\ UNCHANGED <<embeddings, loadPc, filesLeft, files, call, response, simA, simB,
                   simOut, parseIn, parseOut, mainPc, inflight, embedderVars, noteIn>>

NextRead ==
    \/ ReadNote
    \/ ReadFileResolves
    \/ ReadFileRejects

SpecRead == InitRead /\ [][NextRead]_vars

\* ---------------------------------------------------------------------------
\* main: the environment is checked, the embeddings are loaded, then the server is
\* created and connected. Requests reach the handlers through the connected
\* transport only.

InitMain ==
    /\ mainPc = [pc |-> "start", warned |-> FALSE]
    /\ loadPc = "notCalled"
    /\ embeddings = <<>>
    /\ filesLeft = 0
    /\ files = NotListed
    /\ call = IdleCall
    /\ response = NoResponse
    /\ simA = Null
    /\ simB = Null
    /\ simOut = NoCall
    /\ parseIn = NotText
    /\ parseOut = NoParse
    /\ inflight = <<>>
    /\ pipe = Null
    /\ pipelineCalls = <<>>
    /\ encoders = <<>>
    /\ noteIn = NoNote
    /\ noteOut = NoRead

\* OBSIDIAN_VAULT_PATH is not set: process.exit(1)
MainExits ==
    /\ mainPc.pc = "start"
    /\ mainPc' = [pc |-> "exited", warned |-> FALSE]
    /\ UNCHANGED <<embeddings, loadPc, filesLeft, files, call, response, simA, simB,
                   simOut, parseIn, parseOut, inflight, embedderVars, readerVars>>

\* OBSIDIAN_VAULT_PATH is set: loadEmbeddings is called and main waits for it
MainLoads ==
    /\ mainPc.pc = "start"
    /\ mainPc' = [pc |-> "loading", warned |-> FALSE]
    /\ loadPc' = "readdir"
    /\ UNCHANGED <<embeddings, filesLeft, files, call, response, simA, simB,
                   simOut, parseIn, parseOut, inflight, embedderVars, readerVars>>

\* a main that does not wait for loadEmbeddings before it creates and connects the
\* server
MainConnectsWithoutAwait ==
    /\ mainPc.pc = "loading"
    /\ loadPc \in {"files", "ready"}
    /\ mainPc' = [pc |-> "connected", warned |-> Len(embeddings) = 0]
    /\ UNCHANGED <<embeddings, loadPc, filesLeft, files, call, response, simA, simB,
                   simOut, parseIn, parseOut, inflight, embedderVars, readerVars>>

\* loadEmbeddings has returned: the warning is written for an empty Map, the embedder
\* and the server are created with the Map, and the transport is connected
MainConnects ==
    /\ mainPc.pc = "loading"
    /\ loadPc = "ready"
    /\ mainPc' = [pc |-> "connected", warned |-> Len(embeddings) = 0]
    /\ UNCHANGED <<embeddings, loadPc, filesLeft, files, call, response, simA, simB,
                   simOut, parseIn, parseOut, inflight, embedderVars, readerVars>>

\* server.connect rejects: the catch of the auto-run writes 'Fatal' and exits
MainConnectFails ==
    /\ mainPc.pc = "loading"
    /\ loadPc = "ready"
    /\ mainPc' = [pc |-> "exited", warned |-> Len(embeddings) = 0]
    /\ UNCHANGED <<embeddings, loadPc, filesLeft, files, call, response, simA, simB,
                   simOut, parseIn, parseOut, inflight, embedderVars, readerVars>>

\* a request of the client arrives over the connected transport
Connected == mainPc.pc = "connected"

NextMain ==
    \/ MainExits
    \/ MainLoads
    \/ ReadDirFails
    \/ ReadDir
    \/ SkipOtherFile
    \/ ReadFileFails
    \/ LoadFile
    \/ ReturnMap
    \/ MainConnects
    \/ MainConnectFails
    \/ Connected /\ StartSearch /\ call'.tool
    \/ EncodeResolves
    \/ EncodeRejects
    \/ Connected /\ FindRelated /\ call'.tool
    \/ Connected /\ GetStats /\ call'.tool
    \/ Respond
    \/ Settle

SpecMain == InitMain /\ [][NextMain]_vars

\* ---------------------------------------------------------------------------
\* embedder.js: one embedder, its encode calls and its lazily created pipeline. A
\* text is a sequence of runs of whitespace and of other characters, each with its
\* length; adjacent runs differ in kind.

MAX_CHARS == 1800

\* number of encode calls in progress together
MaxEncoders == 2

\* number of pipeline(...) calls of one embedder
MaxPipelines == 3

\* number of runs of a text
MaxRuns == 3

RunLengths == {1, MAX_CHARS - 1, MAX_CHARS}

\* runs that alternate in kind
Alternates(runs) == \A k \in 1..(Len(runs) - 1) : runs[k].ws # runs[k + 1].ws

Strings ==
    {[typeof |-> "string", runs |-> runs] :
        runs \in {r \in SeqsUpTo([ws : BOOLEAN, len : RunLengths], MaxRuns) : Alternates(r)}}

NotStrings == {[typeof |-> t, runs |-> <<>>] : t \in {"number", "null", "undefined"}}

Texts == Strings \cup NotStrings

\* text.length
RECURSIVE textLength(_, _)
textLength(runs, n) == IF n = 0 THEN 0 ELSE textLength(runs, n - 1) + runs[n].len

\* text.trim().length === 0
isBlank(runs) == \A k \in 1..Len(runs) : runs[k].ws

\* validateText: Null when it returns, the error when it throws
validateText(text) ==
    IF text.typeof # "string"
    THEN Some([name |-> "Error", text |-> "encode() expects a string, but received ",
               interpolated |-> text.typeof])
    ELSE IF isBlank(text.runs)
    THEN Some([name |-> "Error",
               text |-> "encode() received an empty or whitespace-only string",
               interpolated |-> <<>>])
    ELSE Null

\* text.slice(0, end)
RECURSIVE slice(_, _)
slice(runs, end) ==
    IF runs = <<>> \/ end <= 0 THEN <<>>
    ELSE IF runs[1].len <= end
         THEN <<runs[1]>> \o slice(Tail(runs), end - runs[1].len)
         ELSE <<[ws |-> runs[1].ws, len |-> end]>>

\* str.replace(/\s+\S*$/, ''): the leftmost match starts where the last run of
\* whitespace starts and reaches the end of the string
replaceTrailingWord(runs) ==
    IF \E k \in 1..Len(runs) : runs[k].ws
    THEN LET last == CHOOSE k \in 1..Len(runs) :
                        runs[k].ws /\ \A j \in (k + 1)..Len(runs) : ~runs[j].ws
         IN  SubSeq(runs, 1, last - 1)
    ELSE runs

\* safeText of encode
safeTextOf(text) ==
    IF textLength(text.runs, Len(text.runs)) <= MAX_CHARS
    THEN text.runs
    ELSE replaceTrailingWord(slice(text.runs, MAX_CHARS))

\* arguments of concurrent encode calls
RaceTexts ==
    {[typeof |-> "string", runs |-> <<[ws |-> FALSE, len |-> 1]>>],
     [typeof |-> "string", runs |-> <<[ws |-> FALSE, len |-> MAX_CHARS],
                                      [ws |-> TRUE, len |-> 1],
                                      [ws |-> FALSE, len |-> 1]>>],
     [typeof |-> "string", runs |-> <<>>]}

InitEmbedder ==
    /\ pipe = Null
    /\ pipelineCalls = <<>>
    /\ encoders \in [1..MaxEncoders -> [pc : {"none"}, text : RaceTexts]]
    /\ embeddings = <<>>
    /\ loadPc = "ready"
    /\ filesLeft = 0
    /\ files = NotListed
    /\ call = IdleCall
    /\ response = NoResponse
    /\ simA = Null
    /\ simB = Null
    /\ simOut = NoCall
    /\ parseIn = NotText
    /\ parseOut = NoParse
    /\ mainPc = NoMain
    /\ inflight = <<>>
    /\ noteIn = NoNote
    /\ noteOut = NoRead

\* one encode call at a time, with any text
InitEncode ==
    /\ pipe = Null
    /\ pipelineCalls = <<>>
    /\ encoders \in [{1} -> [pc : {"none"}, text : Texts]]
    /\ embeddings = <<>>
    /\ loadPc = "ready"
    /\ filesLeft = 0
    /\ files = NotListed
    /\ call = IdleCall
    /\ response = NoResponse
    /\ simA = Null
    /\ simB = Null
    /\ simOut = NoCall
    /\ parseIn = NotText
    /\ parseOut = NoParse
    /\ mainPc = NoMain
    /\ inflight = <<>>
    /\ noteIn = NoNote
    /\ noteOut = NoRead

\* encode from its entry to its first suspension: validateText, safeText, and
\* getPipeline up to its await of pipeline(...) when pipe is null, or to its return
\* of pipe, after which the pipeline is called with safeText
Encode(i) ==
    /\ encoders[i].pc = "none"
    /\ LET text    == encoders[i].text
           invalid == validateText(text)
       IN  IF invalid # Null
           THEN /\ encoders' = [encoders EXCEPT ![i] =
                                   [pc |-> "threw", text |-> text, error |-> invalid[1]]]
                /\ UNCHANGED <<pipe, pipelineCalls>>
           ELSE IF pipe = Null
           THEN /\ Len(pipelineCalls) < MaxPipelines
                /\ pipelineCalls' = Append(pipelineCalls, "pending")
                /\ encoders' = [encoders EXCEPT ![i] =
                                   [pc |-> "awaitPipeline", text |-> text,
                                    safeText |-> safeTextOf(text),
                                    creating |-> Len(pipelineCalls) + 1]]
                /\ UNCHANGED pipe
           ELSE /\ encoders' = [encoders EXCEPT ![i] =
                                   [pc |-> "awaitModel", text |-> text,
                                    safeText |-> safeTextOf(text),
                                    activePipe |-> pipe[1]]]
                /\ UNCHANGED <<pipe, pipelineCalls>>
    /\ UNCHANGED <<embeddings, loadPc, filesLeft, files, call, response, simA, simB,
                   simOut, parseIn, parseOut, mainPc, inflight, readerVars>>

\* pipeline(...) resolves for call i: pipe is assigned and returned, and the pipeline
\* is called with safeText
PipelineResolves(i) ==
    /\ encoders[i].pc = "awaitPipeline"
    /\ pipe' = Some(encoders[i].creating)
    /\ pipelineCalls' = [pipelineCalls EXCEPT ![encoders[i].creating] = "created"]
    /\ encoders' = [encoders EXCEPT ![i] =
                       [pc |-> "awaitModel", text |-> encoders[i].text,
                        safeText |-> encoders[i].safeText,
                        activePipe |-> encoders[i].creating]]
    /\ UNCHANGED <<embeddings, loadPc, filesLeft, files, call, response, simA, simB,
                   simOut, parseIn, parseOut, mainPc, inflight, readerVars>>

\* pipeline(...) rejects for call i: pipe stays as it is and encode rejects
PipelineRejects(i) ==
    /\ encoders[i].pc = "awaitPipeline"
    /\ pipelineCalls' = [pipelineCalls EXCEPT ![encoders[i].creating] = "failed"]
    /\ encoders' = [encoders EXCEPT ![i] =
                       [pc |-> "threw", text |-> encoders[i].text,
                        error |-> [name |-> "Error", text |-> "model failed",
                                   interpolated |-> <<>>]]]
    /\ UNCHANGED <<pipe, embeddings, loadPc, filesLeft, files, call, response, simA, simB,
                   simOut, parseIn, parseOut, mainPc, inflight, readerVars>>

\* the pipeline resolves: encode returns result.data
ModelResolves(i) ==
    /\ encoders[i].pc = "awaitModel"
    /\ encoders' = [encoders EXCEPT ![i] =
                       [pc |-> "returned", text |-> encoders[i].text,
                        safeText |-> encoders[i].safeText,
                        activePipe |-> encoders[i].activePipe]]
    /\ UNCHANGED <<pipe, pipelineCalls, embeddings, loadPc, filesLeft, files, call, response,
                   simA, simB, simOut, parseIn, parseOut, mainPc, inflight, readerVars>>

\* the pipeline rejects: encode rejects
ModelRejects(i) ==
    /\ encoders[i].pc = "awaitModel"
    /\ encoders' = [encoders EXCEPT ![i] =
                       [pc |-> "threw", text |-> encoders[i].text,
                        error |-> [name |-> "Error", text |-> "model failed",
                                   interpolated |-> <<>>]]]
    /\ UNCHANGED <<pipe, pipelineCalls, embeddings, loadPc, filesLeft, files, call, response,
                   simA, simB, simOut, parseIn, parseOut, mainPc, inflight, readerVars>>

\* the caller has taken the vector or the error and may call encode again
EncodeSettles(i) ==
    /\ encoders[i].pc \in {"returned", "threw"}
    /\ encoders' = [encoders EXCEPT ![i] = [pc |-> "none", text |-> encoders[i].text]]
    /\ UNCHANGED <<pipe, pipelineCalls, embeddings, loadPc, filesLeft, files, call, response,
                   simA, simB, simOut, parseIn, parseOut, mainPc, inflight, readerVars>>

NextEmbedder ==
    \/ \E i \in DOMAIN encoders : Encode(i)
    \/ \E i \in DOMAIN encoders : PipelineResolves(i)
    \/ \E i \in DOMAIN encoders : PipelineRejects(i)
    \/ \E i \in DOMAIN encoders : ModelResolves(i)
    \/ \E i \in DOMAIN encoders : ModelRejects(i)
    \/ \E i \in DOMAIN encoders : EncodeSettles(i)

SpecEmbedder == InitEmbedder /\ [][NextEmbedder]_vars

SpecEncode == InitEncode /\ [][NextEmbedder]_vars

---------------------------------------------------------------------------
(* Properties of the ranking operations, checked under Spec *)

SearchReturned == call.op = "semanticSearch" /\ call.pc = "returned"

RelatedReturned == call.op = "findRelated" /\ call.pc = "returned"

\* the limit and the threshold in force for the call on record
EffLimit == IF call.options.limit = Null THEN DEFAULT_LIMIT ELSE call.options.limit[1]

EffThreshold ==
    IF call.options.threshold = Null THEN DEFAULT_THRESHOLD ELSE call.options.threshold[1]

ResultPaths == {call.results[i].path : i \in 1..Len(call.results)}

\* the score of a record against the query vector of the search on record
QueryScore(e) == cosineSimilarity(Some(call.queryArr), Some(e.vec))

PassesKind(e) == call.options.type = "" \/ e.type = call.options.type

PassesPrefix(e) ==
    \/ call.options.folder = <<>>
    \/ /\ Len(call.options.folder) <= Len(e.path)
       /\ \A i \in 1..Len(call.options.folder) :
             lowerChar(e.path[i]) = lowerChar(call.options.folder[i])

\* the records that pass both filters and reach the threshold
Qualifying ==
    {e \in Range(embeddings) : PassesKind(e) /\ PassesPrefix(e) /\ QueryScore(e) >= EffThreshold}

\* C1: for a non-negative limit (10 when omitted) and any threshold (0.3 when
\* omitted), what semanticSearch returns is non-increasing in score, has at most
\* limit entries, and holds no score below the threshold.
C1_SearchSortedCappedFloored ==
    (SearchReturned /\ EffLimit >= 0) =>
        /\ \A i \in 1..(Len(call.results) - 1) :
              call.results[i].score >= call.results[i + 1].score
        /\ Len(call.results) <= EffLimit
        /\ \A i \in 1..Len(call.results) : call.results[i].score >= EffThreshold

\* C1 witness: a search over three records returned two of them, in strictly
\* decreasing score, the third being under the threshold.
C1_Witness ==
    /\ SearchReturned
    /\ call.options.limit = Some(2)
    /\ Len(embeddings) = 3
    /\ Len(call.results) = 2
    /\ call.results[1].score > call.results[2].score
    /\ \E e \in Range(embeddings) : QueryScore(e) < EffThreshold

\* C2: semanticSearch returns the limit best qualifying records: every entry is a
\* qualifying record with its own score, no path occurs twice, no qualifying record
\* left out scores strictly higher than a returned one, and for a non-negative limit
\* the result has min(limit, number of qualifying records) entries.
C2_SearchReturnsTheBest ==
    SearchReturned =>
        /\ \A i \in 1..Len(call.results) :
              \E e \in Qualifying :
                 e.path = call.results[i].path /\ call.results[i].score = QueryScore(e)
        /\ \A i, j \in 1..Len(call.results) :
              i # j => call.results[i].path # call.results[j].path
        /\ \A e \in Qualifying :
              e.path \notin ResultPaths =>
                 \A i \in 1..Len(call.results) : call.results[i].score >= QueryScore(e)
        /\ EffLimit >= 0 =>
              Len(call.results) = Min(EffLimit, Cardinality({e.path : e \in Qualifying}))

\* C2 witness: limit 1 with two qualifying records: the better one is returned and
\* the first record of the Map, which qualifies with a lower score, is left out.
C2_Witness ==
    /\ SearchReturned
    /\ call.options.limit = Some(1)
    /\ Len(call.results) = 1
    /\ Len(embeddings) >= 2
    /\ embeddings[1] \in Qualifying
    /\ embeddings[1].path # call.results[1].path
    /\ QueryScore(embeddings[1]) < call.results[1].score

\* the stored value of the reference path of the findRelated call on record
Reference == CHOOSE e \in Range(embeddings) : e.path = call.notePath

\* C3: findRelated(p) never returns an entry with path p, and a record at another
\* path with the very vector of p is returned whenever it passes the kind filter and
\* the threshold and the limit leaves room for every other record.
C3_RelatedExcludesOnlyItself ==
    RelatedReturned =>
        /\ \A i \in 1..Len(call.results) : call.results[i].path # call.notePath
        /\ \A e \in Range(embeddings) :
              ( /\ e.path # call.notePath
                /\ e.vec = Reference.vec
                /\ PassesKind(e)
                /\ cosineSimilarity(Some(Reference.vec), Some(e.vec)) >= EffThreshold
                /\ EffLimit >= Len(embeddings) - 1 )
              => e.path \in ResultPaths

\* C3 witness: another path holds the same vector as the reference path and is
\* returned, while the reference path is not.
C3_Witness ==
    /\ RelatedReturned
    /\ call.notePath = PathA
    /\ \E e \in Range(embeddings) :
          e.path = PathB /\ e.vec = Reference.vec /\ PathB \in ResultPaths
    /\ PathA \notin ResultPaths

\* C4: findRelated with a path absent from the Map fails with a not-found error
\* that names the missing path.
C4_NotFoundNamesThePath ==
    (call.op = "findRelated" /\ \A e \in Range(embeddings) : e.path # call.notePath) =>
        /\ call.pc = "threw"
        /\ call.notePath \in Range(call.error.interpolated)

\* the stored type of a returned path
TypeOf(path) == (CHOOSE e \in Range(embeddings) : e.path = path).type

C6_PrefixIgnoresCaseAndIntersects ==
    (SearchReturned /\ call.options.folder # <<>>) =>
        /\ \A i \in 1..Len(call.results) :
              startsWith(toLowerCase(call.results[i].path), toLowerCase(call.options.folder))
        /\ call.results = searchResults(call.queryArr, embeddings,
                             [call.options EXCEPT !.folder = toUpperCase(call.options.folder)])
        /\ call.results = searchResults(call.queryArr, embeddings,
                             [call.options EXCEPT !.folder = toLowerCase(call.options.folder)])
        /\ ResultPaths \subseteq {e.path : e \in Qualifying}
        /\ EffLimit >= Len(embeddings) => ResultPaths = {e.path : e \in Qualifying}

\* C6 witness: prefix "P/" and type 'source' return the source record at "P/a" and
\* neither the block record under "p/" nor the source record under "R/".
C6_Witness ==
    /\ SearchReturned
    /\ call.options.folder = <<"P","/">>
    /\ call.options.type = "source"
    /\ ResultPaths = {PathA}
    /\ \E e \in Range(embeddings) :
          e.path = PathB /\ e.type = "block" /\ QueryScore(e) >= EffThreshold
    /\ \E e \in Range(embeddings) :
          e.path = PathC /\ e.type = "source" /\ QueryScore(e) >= EffThreshold

---------------------------------------------------------------------------
(* Properties of cosineSimilarity, checked under SpecSim *)

SimReturned == simOut.status = "returned"

IsZeroVector(v) == \A i \in 1..Len(v) : v[i] = 0

C8_Symmetric ==
    SimReturned => simOut.value = cosineSimilarity(simB, simA)

\* C8 witness: two different vectors of different magnitude with a cosine that is
\* neither 0 nor 1.
C8_Witness ==
    /\ SimReturned
    /\ simA = Some(<<1, 0, 0>>)
    /\ simB = Some(<<1, 1, 1>>)
    /\ simOut.value = 577

RoundHalfAwayFromZero(n, m) ==
    LET a    == Abs(n)
        k    == ISqrt((a * a) \div m)
        half == (2 * k + 1) * (2 * k + 1) * m <= 4 * a * a
    IN  IF n >= 0 THEN k + (IF half THEN 1 ELSE 0) ELSE -(k + (IF half THEN 1 ELSE 0))

\* C10: for equal-length vectors of nonzero magnitude cosineSimilarity returns the
\* cosine rounded to 3 decimals, a tie going away from zero for either sign, so the
\* result lies in [-1, 1] and negating one argument negates the result.
C10_RoundsHalfAwayFromZero ==
    ( /\ SimReturned
      /\ simA # Null
      /\ simB # Null
      /\ Len(simA[1]) = Len(simB[1])
      /\ ~IsZeroVector(simA[1])
      /\ ~IsZeroVector(simB[1]) )
    => LET acc == DotMag(simA[1], simB[1], Len(simA[1]))
       IN  /\ simOut.value = RoundHalfAwayFromZero(Scale * acc[1], acc[2] * acc[3])
           /\ simOut.value \in (-Scale)..Scale
           /\ cosineSimilarity(simA, Some(Neg(simB[1]))) = -simOut.value

---------------------------------------------------------------------------
(* Properties of the parser, checked under SpecParse *)

ParseReturned == parseOut.status = "returned"

\* a line JSON.parse rejects
Malformed(line) == line.form \in {"garbled", "truncated"}

NotMalformed(line) == ~Malformed(line)

\* what the line yields when it is the whole content
YieldOf(line) == parseAjsonContent(Text(<<line>>))

RECURSIVE ConcatYields(_, _)
ConcatYields(lines, n) ==
    IF n = 0 THEN <<>> ELSE ConcatYields(lines, n - 1) \o YieldOf(lines[n])

\* C11: parseAjsonContent returns for every content; content that is not text, is
\* empty, or holds only blank and malformed lines yields the empty sequence, and the
\* malformed and truncated lines of a content change nothing: the result is the one
\* of the same content with those lines taken out.
C11_MalformedLinesAreSkipped ==
    ParseReturned =>
        /\ (~parseIn.string \/ \A i \in 1..Len(parseIn.lines) :
                                  parseIn.lines[i].form \in {"blank", "garbled", "truncated"})
              => parseOut.entries = <<>>
        /\ parseOut.entries = parseAjsonContent(Text(SelectSeq(parseIn.lines, NotMalformed)))

\* a record, a garbled line, a truncated line and another record: both records are yielded
C11_Witness ==
    /\ ParseReturned
    /\ Len(parseIn.lines) = 3
    /\ Malformed(parseIn.lines[2])
    /\ Len(YieldOf(parseIn.lines[1])) = 1
    /\ Len(YieldOf(parseIn.lines[3])) = 1
    /\ parseOut.entries = YieldOf(parseIn.lines[1]) \o YieldOf(parseIn.lines[3])

\* the arrays of the vocabulary whose elements are all numbers
NumberVectors == {VecX, VecXY, VecNegX, Vec3}

\* C12: every record the parser yields has a vector that is a non-empty sequence of
\* numbers.
C12_YieldedVectorsAreNumeric ==
    ParseReturned =>
        \A i \in 1..Len(parseOut.entries) : parseOut.entries[i].vec \in NumberVectors

\* C13: every line yields at most one record and the output is the concatenation of
\* the per-line yields in line order.
C13_OneRecordPerLineInLineOrder ==
    (ParseReturned /\ parseIn.string) =>
        /\ \A i \in 1..Len(parseIn.lines) : Len(YieldOf(parseIn.lines[i])) <= 1
        /\ parseOut.entries = ConcatYields(parseIn.lines, Len(parseIn.lines))

\* two different records with a blank line between them, in the order of their lines
C13_Witness ==
    /\ ParseReturned
    /\ Len(parseIn.lines) = 3
    /\ parseIn.lines[2] = BlankLine
    /\ Len(parseOut.entries) = 2
    /\ parseOut.entries[1] # parseOut.entries[2]
    /\ <<parseOut.entries[1]>> = YieldOf(parseIn.lines[1])
    /\ <<parseOut.entries[2]>> = YieldOf(parseIn.lines[3])

\* a line of one pair whose value holds a non-empty array under embeddings, model, vec
UsablePair(line) ==
    /\ line.form = "object"
    /\ Len(line.pairs) = 1
    /\ line.pairs[1].value # Null
    /\ line.pairs[1].value[1].embeddings # Null
    /\ line.pairs[1].value[1].embeddings[1].model # Null
    /\ line.pairs[1].value[1].embeddings[1].model[1].vec # Null
    /\ line.pairs[1].value[1].embeddings[1].model[1].vec[1].array
    /\ Len(line.pairs[1].value[1].embeddings[1].model[1].vec[1].items) > 0

\* the record the key of such a line stands for: kind by prefix, path the rest of the key
RecordOfKey(line) ==
    LET key == line.pairs[1].key
        vec == line.pairs[1].value[1].embeddings[1].model[1].vec[1].items
    IN  IF Len(key) >= 14 /\ SubSeq(key, 1, 14) = SOURCE_PREFIX
        THEN <<[path |-> SubSeq(key, 15, Len(key)), vec |-> vec, type |-> "source"]>>
        ELSE IF Len(key) >= 13 /\ SubSeq(key, 1, 13) = BLOCK_PREFIX
        THEN <<[path |-> SubSeq(key, 14, Len(key)), vec |-> vec, type |-> "block"]>>
        ELSE <<>>

\* C14: a well-formed line with a usable vector yields a Document record when its key
\* has the Document prefix and a Section record when it has the Section prefix, the
\* path being the key without the prefix whatever the value's path field holds; a key
\* with neither prefix yields nothing.
C14_KindAndPathComeFromTheKey ==
    (ParseReturned /\ parseIn.string) =>
        \A i \in 1..Len(parseIn.lines) :
            UsablePair(parseIn.lines[i]) =>
                YieldOf(parseIn.lines[i]) = RecordOfKey(parseIn.lines[i])

\* a Document line whose path field names another path, a Section line whose path
\* field is null and a line with an unknown prefix: two records, paths from the keys
C14_Witness ==
    /\ ParseReturned
    /\ Len(parseIn.lines) = 3
    /\ \A i \in 1..3 : UsablePair(parseIn.lines[i])
    /\ parseIn.lines[1].pairs[1].value[1].path = <<"string", PathC>>
    /\ parseIn.lines[2].pairs[1].value[1].path = <<"null">>
    /\ startsWith(parseIn.lines[3].pairs[1].key, UNKNOWN_PREFIX)
    /\ parseOut.entries = <<[path |-> PathB, vec |-> VecXY, type |-> "source"],
                            [path |-> PathB, vec |-> VecNegX, type |-> "block"]>>

---------------------------------------------------------------------------
(* Properties of the loader, checked under Spec and SpecLoad *)

\* the loop of loadEmbeddings has visited the whole listing and has not returned yet
LoopDone == loadPc = "files" /\ filesLeft = 0

\* the records of a listing's record files in the order they are applied; every
\* record file of the listing is readable
RECURSIVE AppliedOf(_, _)
AppliedOf(listing, n) ==
    IF n = 0 THEN <<>>
    ELSE AppliedOf(listing, n - 1) \o
         (IF listing[n].ajson THEN parseAjsonContent(Text(listing[n].read[1])) ELSE <<>>)

\* the collection a sequence of applied records stands for: one record per path, in
\* the order the paths first appear, each with the vector and kind applied last
CollectionOf(applied) ==
    LET firsts  == {k \in 1..Len(applied) :
                       \A j \in 1..(k - 1) : applied[j].path # applied[k].path}
        nth(i)  == CHOOSE k \in firsts : Cardinality({j \in firsts : j < k}) = i - 1
        last(k) == CHOOSE j \in 1..Len(applied) :
                       /\ applied[j].path = applied[k].path
                       /\ \A l \in (j + 1)..Len(applied) : applied[l].path # applied[k].path
    IN  [i \in 1..Cardinality(firsts) |-> applied[last(nth(i))]]

Readable(file) == ~(file.ajson /\ file.read = Null)

\* C15: when the record subdirectory cannot be listed, loadEmbeddings returns an empty
\* collection and does not fail; the collection stays empty afterwards.
C15_UnlistableDirectoryGivesEmpty ==
    files.readdir = "rejected" => (loadPc = "ready" /\ embeddings = <<>>)

\* the listing failed and an operation has been served on the empty collection
C15_Witness ==
    /\ files.readdir = "rejected"
    /\ loadPc = "ready"
    /\ embeddings = <<>>
    /\ call.op = "findRelated"
    /\ call.pc = "threw"

\* C16: the loaded collection holds exactly one record per path among the parsed
\* records, with the vector and the kind of the record applied last, later files
\* over earlier files and later lines over earlier lines.
C16_LastAppliedRecordWins ==
    LoopDone =>
        LET applied == AppliedOf(SelectSeq(files.names, Readable),
                                 Len(SelectSeq(files.names, Readable)))
        IN  /\ \A i, j \in 1..Len(embeddings) :
                  embeddings[i].path = embeddings[j].path => i = j
            /\ {embeddings[i].path : i \in 1..Len(embeddings)}
                  = {applied[k].path : k \in 1..Len(applied)}
            /\ \A i \in 1..Len(embeddings), k \in 1..Len(applied) :
                  (/\ applied[k].path = embeddings[i].path
                   /\ \A l \in (k + 1)..Len(applied) : applied[l].path # applied[k].path)
                  => (/\ embeddings[i].vec = applied[k].vec
                      /\ embeddings[i].type = applied[k].type)

\* one path on two lines of the first file, as a Section and as a Document with
\* different vectors, and again in the second file: the record of the second file stays
C16_Witness ==
    /\ LoopDone
    /\ Len(files.names) = 2
    /\ files.names[1] = RecordFile(<<PairLine(BLOCK_PREFIX \o PathA, VecX, TRUE),
                                     PairLine(SOURCE_PREFIX \o PathA, VecX, TRUE)>>)
    /\ files.names[2] = RecordFile(<<PairLine(SOURCE_PREFIX \o PathA, VecXY, FALSE)>>)
    /\ embeddings = <<[path |-> PathA, vec |-> VecXY, type |-> "source"]>>

\* C17: a record file that cannot be read is skipped: the collection is the one of
\* the listing without the unreadable files, and fs.readFile is called for names
\* ending with '.ajson' only.
C17_UnreadableFileIsSkipped ==
    LoopDone =>
        /\ embeddings = CollectionOf(AppliedOf(SelectSeq(files.names, Readable),
                                               Len(SelectSeq(files.names, Readable))))
        /\ files.opened = {i \in 1..Len(files.names) : files.names[i].ajson}

\* an unreadable file between two record files: the records of both are loaded
C17_Witness ==
    /\ LoopDone
    /\ Len(files.names) = 3
    /\ files.names[1].ajson /\ files.names[1].read # Null
    /\ files.names[2] = UnreadableFile
    /\ files.names[3].ajson /\ files.names[3].read # Null
    /\ files.opened = {1, 2, 3}
    /\ Len(embeddings) = 2
    /\ embeddings[1].path = PathA
    /\ embeddings[2].path = PathB

---------------------------------------------------------------------------
(* Properties of failures and of the statistics, checked under Spec *)

\* C18: when the encoder rejects, semanticSearch rejects with the very value the
\* encoder rejected with, after one encoder call, with no result, and the Map is as
\* it was.
C18_EncoderErrorPropagatesUnmodified ==
    [][(call.op = "semanticSearch" /\ call.pc = "awaitEncode" /\ call'.pc = "threw") =>
          /\ call'.error = call'.rejection
          /\ call'.encodeCalls = 1
          /\ "results" \notin DOMAIN call'
          /\ embeddings' = embeddings]_vars

\* a search on a loaded collection has failed with the Error the model pipeline threw
C18_Witness ==
    /\ call.op = "semanticSearch"
    /\ call.pc = "threw"
    /\ Len(embeddings) > 0
    /\ call.rejection.name = "Error"
    /\ call.rejection.text = "model crashed"
    /\ call.error = call.rejection

\* C19: every tool handler settles with text content, whatever the operation returned,
\* threw or rejected with.
C19_HandlersAlwaysReturnText ==
    call.pc = "responded" => response.outcome = "content"

\* the number of entries of the Map stored with the given type
CountOfType(type) == Cardinality({i \in 1..Len(embeddings) : embeddings[i].type = type})

\* C20: getStats returns the number of Document records, the number of Section
\* records, the vector length of the first record in iteration order (0 for an empty
\* collection) and the fixed model identifier; the two counts add up to the size.
C20_StatsCountKindsAndFirstLength ==
    call.op = "getStats" =>
        /\ call.pc \in {"returned", "responded"}
        /\ call.stats.totalNotes = CountOfType("source")
        /\ call.stats.totalBlocks = CountOfType("block")
        /\ call.stats.dimensions = IF Len(embeddings) = 0 THEN 0 ELSE Len(embeddings[1].vec)
        /\ call.stats.modelId = "TaylorAI/bge-micro-v2"
        /\ call.stats.totalNotes + call.stats.totalBlocks = Len(embeddings)

\* statistics of a collection of a Document and two Sections whose first vector has
\* two components and whose last has three
C20_Witness ==
    /\ call.op = "getStats"
    /\ call.pc = "returned"
    /\ Len(embeddings) = 3
    /\ Len(embeddings[1].vec) = 2
    /\ Len(embeddings[3].vec) = 3
    /\ call.stats = [totalNotes |-> 1, totalBlocks |-> 2, dimensions |-> 2,
                     modelId |-> MODEL_ID]

\* ---------------------------------------------------------------------------
\* C21: semanticSearch, findRelated and getStats (and the cosineSimilarity calls
\* they make) only read their inputs: every step of a call, whether the call
\* returns or throws, leaves the Map with the same entries (paths, types, vector
\* values) in the same iteration order, and the encoder's query vector is the one
\* the search scored.
StepOfCall ==
    /\ call' # call
    /\ call'.op \in {"semanticSearch", "findRelated", "getStats"} \/ call.op # "none"

C21_OperationsLeaveInputsUnchanged ==
    [][StepOfCall =>
          /\ embeddings' = embeddings
          /\ (call'.op = "semanticSearch" /\ call'.pc = "returned")
                => (call'.queryVec \in QueryVectors /\ call'.queryArr = call'.queryVec)]_vars

\* a search has returned fewer records than the Map holds, in an order other than
\* the Map's iteration order
C21_Witness ==
    /\ SearchReturned
    /\ Len(call.results) = 2
    /\ Len(embeddings) = 3
    /\ call.results[1].path = embeddings[3].path
    /\ call.results[2].path = embeddings[1].path

\* ---------------------------------------------------------------------------
\* C22: semanticSearch and findRelated calls that run concurrently, interleaved at
\* the encoder's suspension point, each return what they return when run alone on
\* the same Map with the same arguments, and a step of one call (its start, its
\* return, its encoder failure) leaves every other call in progress as it is.
EffLimitOf(options) == IF options.limit = Null THEN DEFAULT_LIMIT ELSE options.limit[1]

EffThresholdOf(options) ==
    IF options.threshold = Null THEN DEFAULT_THRESHOLD ELSE options.threshold[1]

AloneSearch(c) ==
    LET scored == [k \in 1..Len(embeddings) |->
                      [path |-> embeddings[k].path,
                       score |-> cosineSimilarity(Some(EncodingOf(c.query)),
                                                  Some(embeddings[k].vec))]]
        Kept(r) == r.score >= EffThresholdOf(c.options)
        kept == SelectSeq(scored, Kept)
    IN  sortByScore(kept, Len(kept))

AloneCapped(c) == slice0(AloneSearch(c), EffLimitOf(c.options))

ReturnsAsAlone ==
    \A i \in Slots :
        /\ (inflight[i].op = "semanticSearch" /\ inflight[i].pc = "returned")
              => inflight[i].results = AloneCapped(inflight[i])
        /\ (inflight[i].op = "findRelated" /\ inflight[i].pc \in {"returned", "threw"})
              => LET alone == findRelated(inflight[i].notePath, embeddings,
                                          inflight[i].options)
                 IN  /\ alone.pc = inflight[i].pc
                     /\ alone.pc = "returned" => alone.results = inflight[i].results

OthersUntouched ==
    \A i, j \in Slots :
        (i # j /\ inflight'[i] # inflight[i]) => inflight'[j] = inflight[j]

C22_ConcurrentCallsReturnAsAlone ==
    []ReturnsAsAlone /\ [][OthersUntouched /\ embeddings' = embeddings]_vars

\* call 2 returned records while call 1, with another query, was suspended at the
\* encoder, and call 1's encoder then failed
C22_Witness ==
    /\ inflight[1].op = "semanticSearch"
    /\ inflight[1].pc = "threw"
    /\ inflight[2].op = "semanticSearch"
    /\ inflight[2].pc = "returned"
    /\ inflight[2].others = 1
    /\ inflight[1].query # inflight[2].query
    /\ Len(inflight[2].results) = 2

\* ---------------------------------------------------------------------------
\* C23: a negative limit is clamped to a sane default: semanticSearch and findRelated
\* called with a negative limit return, without an error, a result of at most the
\* default limit of 10 records.
NegativeLimit == call.options.limit # Null /\ call.options.limit[1] < 0

C23_NegativeLimitGivesAtMostDefault ==
    (call.pc = "returned" /\ call.op \in {"semanticSearch", "findRelated"} /\ NegativeLimit)
        => Len(call.results) <= DEFAULT_LIMIT

\* what the code does with a negative limit: slice(0, limit) drops that many records
\* from the end of the sorted array, whatever its length
C23_NegativeLimitDropsFromTheEnd ==
    (SearchReturned /\ NegativeLimit /\ call.options.type = "" /\ call.options.folder = <<>>)
        => Len(call.results) = Max(Cardinality(Qualifying) + EffLimit, 0)

\* ---------------------------------------------------------------------------
\* C24: readNote calls fs.readFile only when the path without its fragment resolves
\* to the vault root or beneath it, and then on that resolved path; when it resolves
\* outside the vault ('..', an absolute path, a sibling directory whose name begins
\* with the vault's name) readNote throws the 'outside the vault' error and has read
\* no file.
ResolvedSegments(from, to) ==
    LET resolved == pathResolve(from, to)
        raw      == segmentsOf(resolved)
    IN  normalizeSegments(raw, Len(raw))

StrippedPath ==
    IF \E i \in 1..Len(noteIn.notePath) : noteIn.notePath[i] = "#"
    THEN SubSeq(noteIn.notePath, 1,
                (CHOOSE i \in 1..Len(noteIn.notePath) :
                    /\ noteIn.notePath[i] = "#"
                    /\ \A j \in 1..(i - 1) : noteIn.notePath[j] # "#") - 1)
    ELSE noteIn.notePath

\* directory by directory, the vault's resolved path leads to the note's
Beneath ==
    LET vault == ResolvedSegments(noteIn.vaultPath, <<>>)
        note  == ResolvedSegments(noteIn.vaultPath, StrippedPath)
    IN  Len(vault) <= Len(note) /\ SubSeq(note, 1, Len(vault)) = vault

C24_ReadsOnlyInsideTheVault ==
    /\ noteOut.status \in {"awaitRead", "returned", "rejected"}
          => (Beneath /\ noteOut.fullPath = pathResolve(noteIn.vaultPath, StrippedPath))
    /\ (noteOut.status # "none" /\ ~Beneath)
          => /\ noteOut.status = "threw"
             /\ noteOut.text = "resolves outside the vault"
             /\ noteOut.interpolated = StrippedPath
             /\ noteOut.reads = 0

\* readNote refused a path into the sibling directory /vb of the vault /v
C24_Witness ==
    /\ noteOut.status = "threw"
    /\ noteIn.vaultPath = <<"/", "v">>
    /\ pathResolve(noteIn.vaultPath, StrippedPath) = <<"/", "v", "b", "/", "n">>

\* a file beneath the vault was read although the note path holds '..' and a fragment
\* that leads outside
C24_WitnessRead ==
    /\ noteOut.status = "returned"
    /\ noteOut.fullPath = <<"/", "v", "/", "n">>
    /\ \E i \in 1..Len(StrippedPath) - 1 : StrippedPath[i] = "." /\ StrippedPath[i + 1] = "."
    /\ Len(noteIn.notePath) > Len(StrippedPath) + 2

\* ---------------------------------------------------------------------------
\* C25: main connects the server only after loadEmbeddings has returned the Map: a
\* tool call is in progress only on a connected server, a connected server has a
\* Map that no file is still to be loaded into, and from then on that Map stays the
\* same for every tool call; an empty Map does not keep main from connecting.
ServedAfterLoading ==
    /\ call.op # "none" => Connected
    /\ Connected => (loadPc = "ready" /\ filesLeft = 0)
    /\ (Connected /\ Len(embeddings) = 0) => mainPc.warned

SameMapOnceConnected ==
    Connected => (Connected' /\ embeddings' = embeddings /\ loadPc' = loadPc)

C25_ServerConnectsAfterLoading ==
    []ServedAfterLoading /\ [][SameMapOnceConnected]_vars

\* the directory could not be listed, main wrote the warning and connected, and
\* vault_stats was answered from the empty Map
C25_Witness ==
    /\ Connected
    /\ mainPc.warned
    /\ embeddings = <<>>
    /\ call.op = "getStats"
    /\ response.outcome = "content"
    /\ ~response.isError

\* a search was answered from a Map of three records loaded before the connection
C25_WitnessLoaded ==
    /\ Connected
    /\ Len(embeddings) = 3
    /\ call.op = "semanticSearch"
    /\ response.outcome = "content"
    /\ Len(call.results) >= 1

\* ---------------------------------------------------------------------------
\* C26: one embedder creates its pipeline at most once, whatever the interleaving of
\* its encode calls, two calls that start before the first creation has finished
\* included, and every call hands its text to that one pipeline.
PipelinesMade == {k \in 1..Len(pipelineCalls) : pipelineCalls[k] = "created"}

C26_PipelineCreatedAtMostOnce ==
    /\ Cardinality(PipelinesMade) <= 1
    /\ \A i, j \in DOMAIN encoders :
          (encoders[i].pc \in {"awaitModel", "returned"}
             /\ encoders[j].pc \in {"awaitModel", "returned"})
          => encoders[i].activePipe = encoders[j].activePipe

\* what the code guarantees: a pipeline is created only while pipe is null or by a
\* call that found it null, and a call uses the value pipe had when getPipeline
\* returned to it
C26_PipelineCreatedWhileNull ==
    /\ (pipe = Null) => \A k \in 1..Len(pipelineCalls) : pipelineCalls[k] # "created"
    /\ Len(pipelineCalls) <= MaxPipelines
    /\ \A i \in DOMAIN encoders :
          encoders[i].pc \in {"awaitModel", "returned"}
             => pipelineCalls[encoders[i].activePipe] = "created"

\* ---------------------------------------------------------------------------
\* C27: for a text that passes validateText, what encode hands to the pipeline is
\* not empty, has at most 1800 characters and is a prefix of the text, and is the
\* text itself when that has at most 1800 characters; a text that fails validateText
\* is rejected before the pipeline is created or called.
IsPrefix(short, long) ==
    \/ short = <<>>
    \/ /\ Len(short) <= Len(long)
       /\ SubSeq(short, 1, Len(short) - 1) = SubSeq(long, 1, Len(short) - 1)
       /\ short[Len(short)].ws = long[Len(short)].ws
       /\ short[Len(short)].len <= long[Len(short)].len

Handed(i) == encoders[i].pc \in {"awaitPipeline", "awaitModel", "returned"}

C27_HandedTextIsBoundedPrefix ==
    \A i \in DOMAIN encoders :
        /\ Handed(i) =>
              /\ validateText(encoders[i].text) = Null
              /\ encoders[i].safeText # <<>>
              /\ textLength(encoders[i].safeText, Len(encoders[i].safeText)) <= MAX_CHARS
              /\ IsPrefix(encoders[i].safeText, encoders[i].text.runs)
              /\ textLength(encoders[i].text.runs, Len(encoders[i].text.runs)) <= MAX_CHARS
                    => encoders[i].safeText = encoders[i].text.runs
        /\ validateText(encoders[i].text) # Null =>
              (encoders[i].pc \in {"none", "threw"} /\ pipelineCalls = <<>>)

\* the claim without 'not empty': this much holds of the code
C27_HandedTextIsPrefixOrEmpty ==
    \A i \in DOMAIN encoders :
        /\ Handed(i) =>
              /\ validateText(encoders[i].text) = Null
              /\ textLength(encoders[i].safeText, Len(encoders[i].safeText)) <= MAX_CHARS
              /\ IsPrefix(encoders[i].safeText, encoders[i].text.runs)
              /\ textLength(encoders[i].text.runs, Len(encoders[i].text.runs)) <= MAX_CHARS
                    => encoders[i].safeText = encoders[i].text.runs
        /\ validateText(encoders[i].text) # Null =>
              (encoders[i].pc \in {"none", "threw"} /\ pipelineCalls = <<>>)

\* ---------------------------------------------------------------------------
\* C28: what semanticSearch and findRelated return is determined by the Map, the
\* query or reference vector and the options: a second evaluation on the same
\* inputs gives the same sequence, and of two returned records the one with the
\* higher score comes first, records of equal score in the Map's insertion order.
PositionOf(path) == CHOOSE k \in 1..Len(embeddings) : embeddings[k].path = path

InRankOrder(results) ==
    \A i, j \in 1..Len(results) :
        i < j => \/ results[i].score > results[j].score
                 \/ /\ results[i].score = results[j].score
                    /\ PositionOf(results[i].path) < PositionOf(results[j].path)

C28_SameInputsSameSequence ==
    /\ SearchReturned =>
          /\ InRankOrder(call.results)
          /\ call.results = searchResults(call.queryArr, embeddings, call.options)
    /\ RelatedReturned =>
          /\ InRankOrder(call.results)
          /\ call.results = findRelated(call.notePath, embeddings, call.options).results

\* two records of equal score were returned, the one inserted first before the other
C28_Witness ==
    /\ SearchReturned
    /\ Len(call.results) >= 2
    /\ call.results[1].score = call.results[2].score
    /\ call.results[1].path # call.results[2].path

\* ---------------------------------------------------------------------------
\* C29: without a type filter and with a limit of at least the Map's size, for
\* every threshold and distinct stored paths a and b, findRelated(a) returns b
\* with score s exactly when findRelated(b) returns a with score s.
ScoresOf(results, path) ==
    {results[i].score : i \in {k \in 1..Len(results) : results[k].path = path}}

Unfiltered == call.options.type = "" /\ EffLimit >= Len(embeddings)

C29_RelatedIsSymmetric ==
    (RelatedReturned /\ Unfiltered) =>
        \A e \in Range(embeddings) :
            e.path # call.notePath =>
                LET back == findRelated(e.path, embeddings, call.options)
                IN  /\ back.pc = "returned"
                    /\ ScoresOf(call.results, e.path) = ScoresOf(back.results, call.notePath)

\* findRelated returned a record whose vector has another magnitude than the
\* reference, with the score 0.707 that the reverse call gives too
C29_Witness ==
    /\ RelatedReturned
    /\ Unfiltered
    /\ call.options.threshold = Some(707)
    /\ \E i \in 1..Len(call.results) :
          /\ call.results[i].score = 707
          /\ ScoresOf(findRelated(call.results[i].path, embeddings, call.options).results,
                      call.notePath) = {707}

\* ---------------------------------------------------------------------------
\* C30: a record whose vector has another length than the query or reference
\* vector does not make the call fail; it scores 0, so it is returned only under a
\* threshold of at most 0, and the records of matching length come in the order and
\* with the scores they have when that record is absent.
QueryOrReference == IF call.op = "semanticSearch" THEN call.queryArr ELSE Reference.vec

SameLength(e) == Len(e.vec) = Len(QueryOrReference)

Matching(results) ==
    LET IsMatching(r) == \E e \in Range(embeddings) : e.path = r.path /\ SameLength(e)
    IN  SelectSeq(results, IsMatching)

WithoutMismatched ==
    LET map == SelectSeq(embeddings, SameLength)
    IN  IF call.op = "semanticSearch"
        THEN searchResults(call.queryArr, map, call.options)
        ELSE findRelated(call.notePath, map, call.options).results

OnePrefixOfOther(s, t) ==
    IF Len(s) <= Len(t) THEN SubSeq(t, 1, Len(s)) = s ELSE SubSeq(s, 1, Len(t)) = t

C30_MismatchedLengthScoresZero ==
    (SearchReturned \/ RelatedReturned) =>
        /\ \A i \in 1..Len(call.results) :
              \A e \in Range(embeddings) :
                 (e.path = call.results[i].path /\ ~SameLength(e))
                    => (call.results[i].score = 0 /\ EffThreshold <= 0)
        /\ OnePrefixOfOther(Matching(call.results), WithoutMismatched)
        /\ EffThreshold > 0 => call.results = WithoutMismatched
        /\ (EffThreshold <= 0 /\ EffLimit >= Len(embeddings) /\ call.options.type = ""
              /\ call.options.folder = <<>>)
              => \A e \in Range(embeddings) :
                    (~SameLength(e) /\ (call.op = "findRelated" => e.path # call.notePath))
                       => e.path \in ResultPaths

\* a search with threshold 0 returned a record of another length with score 0, after
\* a record of matching length
C30_Witness ==
    /\ SearchReturned
    /\ call.options.threshold = Some(0)
    /\ Len(call.results) = 2
    /\ call.results[1].score > 0
    /\ call.results[2].score = 0
    /\ \E e \in Range(embeddings) : e.path = call.results[2].path /\ ~SameLength(e)

=============================================================================
